---------------------------- MODULE Spec2Model ----------------------------
(* A state-machine model of the ant simulator core:                        *)
(*   src/src/ant_sim_frame_impl.rs  packed cells and the flat grid         *)
(*   src/src/ant_sim.rs             neighbors, AntSimulator::update        *)
(*   src/src/ant_sim_ant.rs         Ant, move_to_next2, simple_hash2       *)
(*                                                                         *)
(* Conventions.  A position (AntPositionImpl) is its index y*width+x.      *)
(* Option<Position> is the position itself for Some(p) and None == -1.     *)
(* A u64 is a tuple of four 16-bit limbs, least significant first.         *)
(* f64 scores are fixed-point integers: pheromone scores in quarters       *)
(* (the weights are 1.0 and -0.25), the blend with the explore weight in   *)
(* halves of that, distances between bias points in hundredths.            *)
EXTENDS Integers, Naturals, Sequences, FiniteSets, TLC

VARIABLES
    state,      \* <<prev, new>>: the two simulator buffers of main_loop; prev is read, new is written
    twin,       \* a second pair of buffers, built like the first, stepped alongside it
    status,     \* "ok"; "panic" once an assert, unwrap or overflow check has aborted; "diverged" when only one twin aborted
    lastOp,     \* the operation that produced this state: "new", "set_cell", "update"
    ticks,      \* number of update calls made
    edits,      \* number of set_cell calls made after construction
    nb          \* the stand-alone neighbors() harness: grid, range, ring buffers, last center

vars == <<state, twin, status, lastOp, ticks, edits, nb>>

-----------------------------------------------------------------------------
(* Integers of the program                                                 *)

U16_MAX == 65535

None == -1

IsSome(o) == o # None

min(a, b) == IF a <= b THEN a ELSE b

\* u16::saturating_sub
saturating_sub(a, b) == IF a > b THEN a - b ELSE 0

\* u16 wrapping subtraction: what a non-saturating decrement would compute
wrapping_sub_u16(a, b) == (a - b) % (U16_MAX + 1)

LimbBase == 65536

\* a u64 from a small natural
U64(n) == <<n % LimbBase, (n \div LimbBase) % LimbBase, 0, 0>>

U64_MAX == <<U16_MAX, U16_MAX, U16_MAX, U16_MAX>>

\* limb-wise addition with carry; the carry out of the top limb is the overflow flag
add_u64(a, b) ==
    LET s1 == a[1] + b[1]
        s2 == a[2] + b[2] + (s1 \div LimbBase)
        s3 == a[3] + b[3] + (s2 \div LimbBase)
        s4 == a[4] + b[4] + (s3 \div LimbBase)
    IN  [val |-> <<s1 % LimbBase, s2 % LimbBase, s3 % LimbBase, s4 % LimbBase>>,
         overflow |-> s4 >= LimbBase]

\* an addition that stops at u64::MAX
saturating_add(a, b) == IF add_u64(a, b).overflow THEN U64_MAX ELSE add_u64(a, b).val

\* u64::wrapping_add
wrapping_add(a, b) == add_u64(a, b).val

-----------------------------------------------------------------------------
(* Cells: AntSimCell and its packed form AntSimCellImpl {p1, p2}           *)

Path(pf, ph) == [kind |-> "Path", pheromone_food |-> pf, pheromone_home |-> ph]
Blocker == [kind |-> "Blocker"]
Home == [kind |-> "Home"]
Food(a) == [kind |-> "Food", amount |-> a]

\* a decrement that wraps below zero
dec_by_wrapping(p, other) == wrapping_sub_u16(p, other)

\* NonMaxU16::dec_by
dec_by(p, other) == saturating_sub(p, other)

\* an unpacking that tests p1 for the sentinel before p2
to_cell_p1_first(c) ==
    IF c.p1 = U16_MAX THEN (IF c.p2 = 0 THEN Blocker ELSE Home)
    ELSE IF c.p2 = U16_MAX THEN Food(c.p1)
    ELSE Path(c.p1, c.p2)

\* debug_assert!(self.p2 < 2) in the branch of to_cell that reaches it
to_cell_debug_assert(c) == (c.p2 # U16_MAX /\ c.p1 = U16_MAX) => c.p2 < 2

\* AntSimCellImpl::to_cell
to_cell(c) ==
    IF c.p2 = U16_MAX THEN Food(c.p1)
    ELSE IF c.p1 = U16_MAX THEN (IF c.p2 = 0 THEN Blocker ELSE Home)
    ELSE Path(c.p1, c.p2)

\* AntSimCellImpl::from_cell
from_cell(cell) ==
    CASE cell.kind = "Path" -> [p1 |-> cell.pheromone_food, p2 |-> cell.pheromone_home]
      [] cell.kind = "Blocker" -> [p1 |-> U16_MAX, p2 |-> 0]
      [] cell.kind = "Home" -> [p1 |-> U16_MAX, p2 |-> 1]
      [] cell.kind = "Food" -> [p1 |-> cell.amount, p2 |-> U16_MAX]

\* a decrease that looks for the sentinel in p2 only
with_decreased_pheromone_p2_only(c, amount) ==
    [p1 |-> saturating_sub(c.p1, IF c.p2 # U16_MAX THEN amount ELSE 0),
     p2 |-> saturating_sub(c.p2, IF c.p2 # U16_MAX THEN amount ELSE 0)]

\* AntSimCellImpl::with_decreased_pheromone: dec_by is amount for a cell without a
\* sentinel and 0 for the others
with_decreased_pheromone(c, amount) ==
    [p1 |-> saturating_sub(c.p1, IF c.p1 # U16_MAX /\ c.p2 # U16_MAX THEN amount ELSE 0),
     p2 |-> saturating_sub(c.p2, IF c.p1 # U16_MAX /\ c.p2 # U16_MAX THEN amount ELSE 0)]

-----------------------------------------------------------------------------
(* The flat grid AntSimVecImpl {contains, height, width}                   *)

\* AntSimVecImpl::new, for dimensions it accepts: every cell Path{0, 0}
new_grid(width, height) ==
    [contains |-> [i \in 0..(width * height - 1) |-> from_cell(Path(0, 0))],
     width |-> width, height |-> height]

\* usize is UsizeBits wide in AntSimVecImpl_new: the products of small dimensions then
\* cross isize::MAX and usize::MAX
UsizeBits == 8
USIZE_MAX == 2 ^ UsizeBits - 1
ISIZE_MAX == 2 ^ (UsizeBits - 1) - 1

\* size_of::<AntSimCellImpl>(): two u16
CellBytes == 4

\* a multiplication that wraps and never raises the flag
overflowing_mul_unflagged(a, b) == [val |-> (a * b) % (USIZE_MAX + 1), overflow |-> FALSE]

\* usize::overflowing_mul
overflowing_mul(a, b) == [val |-> (a * b) % (USIZE_MAX + 1), overflow |-> a * b > USIZE_MAX]

\* AntSimVecImpl::new: [tag, panicked, grid].  alloc is whether the allocator grants the
\* request; try_reserve_exact also fails when the bytes exceed isize::MAX.  The plain
\* products width * height are evaluated only after overflowing_mul has cleared them;
\* panicked is whether one of them overflows in a build with overflow checks.
AntSimVecImpl_new(width, height, alloc, overflow_checks) ==
    LET result(tag, panicked) ==
            [tag |-> tag, panicked |-> panicked,
             grid |-> IF tag = "Ok" /\ ~panicked THEN new_grid(width, height)
                      ELSE new_grid(1, 1)]
        sized(m) ==
            IF m.overflow THEN result("DimensionTooLarge", FALSE)
            ELSE IF m.val > ISIZE_MAX
            THEN result("DimensionTooLarge", overflow_checks /\ width * height > USIZE_MAX)
            ELSE IF ~alloc \/ m.val * CellBytes > ISIZE_MAX
            THEN result("OutOfMemory", overflow_checks /\ width * height > USIZE_MAX)
            ELSE result("Ok", overflow_checks /\ width * height > USIZE_MAX)
    IN  IF width = 0 \/ height = 0 THEN result("DimensionZero", FALSE)
        ELSE sized(overflowing_mul(width, height))

cell_count(sim) == Cardinality(DOMAIN sim.contains)

Positions(sim) == DOMAIN sim.contains

\* a test of the number of cells only
check_compatible_len_only(a, b) == cell_count(a) = cell_count(b)

\* AntSimVecImpl::check_compatible
check_compatible(a, b) ==
    /\ cell_count(a) = cell_count(b)
    /\ a.height = b.height
    /\ a.width = b.width

\* a decoding that divides by the height
decode_by_height(sim, position) ==
    [x |-> position % sim.height, y |-> position \div sim.height]

\* AntSimVecImpl::decode
decode(sim, position) == [x |-> position % sim.width, y |-> position \div sim.width]

\* an index that runs down the columns instead of along the rows
encode_column_major(sim, x, y) ==
    IF x < sim.width /\ y < sim.height THEN x * sim.height + y ELSE None

\* AntSimVecImpl::encode: None outside the grid
encode(sim, x, y) ==
    IF x < sim.width /\ y < sim.height THEN y * sim.width + x ELSE None

\* the None of Option<AntSimCell>
NoCell == [kind |-> "None"]

\* AntSimVecImpl::cell: Option<AntSimCell>, None for an index outside contains
cell(sim, position) ==
    IF position \in DOMAIN sim.contains THEN to_cell(sim.contains[position]) ELSE NoCell

\* AntSimVecImpl::set_cell: a silent no-op outside contains
set_cell(sim, position, c) ==
    IF position \in DOMAIN sim.contains
    THEN [sim EXCEPT !.contains[position] = from_cell(c)]
    ELSE sim

-----------------------------------------------------------------------------
(* AntVisualRangeBuffer {backing, range}                                   *)

\* AntVisualRangeBuffer::expected_size
expected_size(range) == ((range * (range + 1)) \div 2) * 8

\* AntVisualRangeBuffer::new: a backing store of None
new_visual_range(range) ==
    [backing |-> [i \in 1..expected_size(range) |-> None], range |-> range]

\* AntVisualRangeBuffer::buffers: ring r (1-based) is the next 8r slots of backing.
\* The result is the list of rings for write_into of length n; the asserts are the ok flag.
buffers(vr, n) ==
    [ok |-> Len(vr.backing) >= expected_size(vr.range) /\ n <= vr.range,
     rings |-> [r \in 1..n |-> SubSeq(vr.backing, expected_size(r - 1) + 1, expected_size(r))]]

\* the rings are slices of backing: what backing holds after the rings were written
write_back(vr, rings) ==
    [vr EXCEPT !.backing =
        [i \in 1..Len(vr.backing) |->
            IF \E r \in 1..Len(rings) : expected_size(r - 1) < i /\ i <= expected_size(r)
            THEN LET r == CHOOSE q \in 1..Len(rings) : expected_size(q - 1) < i /\ i <= expected_size(q)
                 IN  rings[r][i - expected_size(r - 1)]
            ELSE vr.backing[i]]]

-----------------------------------------------------------------------------
(* neighbors (src/src/ant_sim.rs)                                          *)

\* A usize subtraction that went below zero in a build without overflow checks wraps to
\* 2^64 + v.  The wrapped value is only ever compared with ring numbers, so it is kept as
\* a number above every ring number.
WrappedUsize(v) == 1073741824 + v

\* the four clipping distances computed at the head of neighbors;
\* ok is FALSE when `sim.height() - 1 - x` underflows and overflow checks are on
neighbor_ranges(sim, x, y, range, overflow_checks) ==
    LET up_x_raw == sim.height - 1 - x
    IN  [downrange_x |-> IF x <= range THEN x ELSE range,
         downrange_y |-> IF y <= range THEN y ELSE range,
         uprange_y |-> IF sim.height - y <= range THEN sim.height - 1 - y ELSE range,
         uprange_x |-> IF sim.width - x <= range
                       THEN (IF up_x_raw < 0 THEN WrappedUsize(up_x_raw) ELSE up_x_raw)
                       ELSE range,
         ok |-> ~(overflow_checks /\ sim.width - x <= range /\ up_x_raw < 0)]

\* one pass of the body of `for r in 1..=range`: the ring buffer after the four sides were written.
\* i is the 0-based slot index; slots outside the four written runs keep what they held.
neighbors_ring(sim, x, y, r, rg, buffer) ==
    LET down_start_x == min(rg.downrange_x, r)
        up_end_x == min(rg.uprange_x, r)
        down_start_y == min(rg.downrange_y, r - 1)
        up_end_y == min(rg.uprange_y, r - 1)
        top_start == r - down_start_x
        right_start == 1 + 2 * r + (r - 1 - up_end_y)
        bottom_start == 2 * (1 + 2 * r) - 2 + (r - up_end_x)
        left_start == 3 * (1 + 2 * r) - 2 + (r - 1 - down_start_y)
        n_x == down_start_x + up_end_x + 1
        n_y == down_start_y + up_end_y + 1
    IN  [j \in 1..Len(buffer) |->
            LET i == j - 1 IN
            IF r <= rg.downrange_x /\ left_start <= i /\ i < left_start + n_y
            THEN encode(sim, x - r, (y - down_start_y) + (i - left_start))
            ELSE IF r <= rg.downrange_y /\ bottom_start <= i /\ i < bottom_start + n_x
            THEN encode(sim, (x + up_end_x) - (i - bottom_start), y - r)
            ELSE IF r <= rg.uprange_x /\ right_start <= i /\ i < right_start + n_y
            THEN encode(sim, x + r, (y + up_end_y) - (i - right_start))
            ELSE IF r <= rg.uprange_y /\ top_start <= i /\ i < top_start + n_x
            THEN encode(sim, (x - down_start_x) + (i - top_start), y + r)
            ELSE buffer[j]]

\* neighbors(sim, position, buffers): [ok, rings].  ok is FALSE when an assert fails
\* (position not of this grid, a ring of the wrong length) or a subtraction overflows
\* under overflow checks; the rings are then as they were.
neighbors(sim, position, bufs, overflow_checks) ==
    LET range == Len(bufs)
        c == decode(sim, position)
        rg == neighbor_ranges(sim, c.x, c.y, range, overflow_checks)
        ok == /\ encode(sim, c.x, c.y) # None
              /\ rg.ok
              /\ \A r \in 1..range : Len(bufs[r]) = 4 * (1 + 2 * r) - 4
    IN  [ok |-> ok,
         rings |-> IF ok
                   THEN [r \in 1..range |-> neighbors_ring(sim, c.x, c.y, r, rg, bufs[r])]
                   ELSE bufs]

-----------------------------------------------------------------------------
(* neighbors_unsafe (src/src/ant_sim.rs)                                   *)

\* AntSim::encode_unsafe is called by neighbors_unsafe but its body is not part of the
\* sources.  It is the unchecked counterpart of encode: the same index as encode for a
\* coordinate inside the grid, and some index, never None, for any other coordinate.
encode_unsafe(sim, x, y) == y * sim.width + x

\* the four clipping distances at the head of neighbors_unsafe and the debug_asserts on them;
\* ok is FALSE when `sim.height() - 1 - x` underflows under overflow checks or a
\* debug_assert fails under debug assertions
neighbor_ranges_unsafe(sim, x, y, range, overflow_checks, debug_assertions) ==
    LET checked(rg) ==
            [rg EXCEPT !.ok =
                /\ rg.ok
                /\ debug_assertions =>
                      /\ x < sim.width /\ y < sim.height
                      /\ rg.downrange_x <= range /\ rg.downrange_x <= x
                      /\ rg.downrange_y <= range /\ rg.downrange_y <= y
                      /\ rg.uprange_y <= range /\ y + rg.uprange_y < sim.height
                      /\ rg.uprange_x <= range /\ x + rg.uprange_x < sim.width]
        wrapped(up_x_raw) == IF up_x_raw < 0 THEN WrappedUsize(up_x_raw) ELSE up_x_raw
    IN  checked([downrange_x |-> IF x <= range THEN x ELSE range,
                 downrange_y |-> IF y <= range THEN y ELSE range,
                 uprange_y |-> IF sim.height - 1 - y <= range THEN sim.height - 1 - y ELSE range,
                 uprange_x |-> IF sim.width - 1 - x <= range
                               THEN wrapped(sim.height - 1 - x) ELSE range,
                 ok |-> ~(overflow_checks /\ sim.width - 1 - x <= range
                                          /\ sim.height - 1 - x < 0)])

\* the debug_asserts of one pass of `for r in 1..=range` in neighbors_unsafe, each under
\* the `if` of the side it stands in
ring_debug_asserts(sim, x, y, r, rg) ==
    LET sides(down_start_x, up_end_x, down_start_y, up_end_y) ==
            /\ down_start_x <= rg.downrange_x /\ down_start_x <= r
            /\ up_end_x <= rg.uprange_x /\ up_end_x <= r
            /\ down_start_y <= rg.downrange_y /\ down_start_y <= r - 1
            /\ up_end_y <= rg.uprange_y /\ up_end_y <= r - 1
            /\ r <= rg.uprange_y =>
                  /\ r - down_start_x <= r
                  /\ r - down_start_x + down_start_x + 1 + up_end_x <= 2 * r + 1
                  /\ r - down_start_x + down_start_x + 1 + up_end_x < 8 * r
                  /\ y + r < sim.height
            /\ r <= rg.uprange_x =>
                  /\ 3 * r - up_end_y <= 3 * r
                  /\ 3 * r - up_end_y + down_start_y + up_end_y + 1 <= 4 * r
                  /\ 3 * r - up_end_y + down_start_y + up_end_y + 1 < 8 * r
                  /\ x + r < sim.width
            /\ r <= rg.downrange_y =>
                  /\ 5 * r - up_end_x <= 5 * r
                  /\ 5 * r - up_end_x + down_start_x + up_end_x + 1 <= 1 + 6 * r
                  /\ 5 * r - up_end_x + down_start_x + up_end_x + 1 < 8 * r
                  /\ r <= y
            /\ r <= rg.downrange_x =>
                  /\ 7 * r - down_start_y <= 7 * r
                  /\ 7 * r - down_start_y + down_start_y + up_end_y + 1 <= 8 * r
                  /\ (7 * r - down_start_y) + down_start_y + up_end_y < 8 * r
                  /\ x <= r
    IN  sides(min(rg.downrange_x, r), min(rg.uprange_x, r),
              min(rg.downrange_y, r - 1), min(rg.uprange_y, r - 1))

\* one pass of the body of `for r in 1..=range` in neighbors_unsafe: the ring buffer after
\* the four sides were written, every written slot Some(encode_unsafe(..)).
\* i is the 0-based slot index; slots outside the four written runs keep what they held.
neighbors_unsafe_ring(sim, x, y, r, rg, buffer) ==
    LET written(down_start_x, up_end_x, down_start_y, up_end_y) ==
            [j \in 1..Len(buffer) |->
                LET i == j - 1 IN
                IF r <= rg.downrange_x /\ 7 * r - down_start_y <= i
                                       /\ i <= 7 * r + up_end_y
                THEN encode_unsafe(sim, x - r, (y - down_start_y) + (i - (7 * r - down_start_y)))
                ELSE IF r <= rg.downrange_y /\ 5 * r - up_end_x <= i
                                            /\ i <= 5 * r + down_start_x
                THEN encode_unsafe(sim, (x + up_end_x) - (i - (5 * r - up_end_x)), y - r)
                ELSE IF r <= rg.uprange_x /\ 3 * r - up_end_y <= i
                                          /\ i <= 3 * r + down_start_y
                THEN encode_unsafe(sim, x + r, (y + up_end_y) - (i - (3 * r - up_end_y)))
                ELSE IF r <= rg.uprange_y /\ r - down_start_x <= i /\ i <= r + up_end_x
                THEN encode_unsafe(sim, (x - down_start_x) + (i - (r - down_start_x)), y + r)
                ELSE buffer[j]]
    IN  written(min(rg.downrange_x, r), min(rg.uprange_x, r),
                min(rg.downrange_y, r - 1), min(rg.uprange_y, r - 1))

\* neighbors_unsafe(sim, position, buffers): [ok, rings].  ok is FALSE when an assert
\* fails, a debug_assert fails under debug assertions or a subtraction overflows under
\* overflow checks; the rings are then as they were.
neighbors_unsafe(sim, position, bufs, overflow_checks, debug_assertions) ==
    LET filled(x, y, rg) ==
            LET ok == /\ encode(sim, x, y) # None
                      /\ Len(bufs) <= 8125
                      /\ rg.ok
                      /\ \A r \in 1..Len(bufs) :
                            /\ Len(bufs[r]) = 8 * r
                            /\ debug_assertions => ring_debug_asserts(sim, x, y, r, rg)
            IN  [ok |-> ok,
                 rings |-> IF ok
                           THEN [r \in 1..Len(bufs) |->
                                    neighbors_unsafe_ring(sim, x, y, r, rg, bufs[r])]
                           ELSE bufs]
        at(c) == filled(c.x, c.y, neighbor_ranges_unsafe(sim, c.x, c.y, Len(bufs),
                                                         overflow_checks, debug_assertions))
    IN  at(decode(sim, position))

-----------------------------------------------------------------------------
(* simple_hash2 (src/src/ant_sim_ant.rs)                                   *)

\* exclusive or of two 4-bit numbers, tabulated: XorNibble[a + 1][b + 1] = a ^ b
XorNibble ==
    << <<0, 1, 2, 3, 4, 5, 6, 7, 8, 9, 10, 11, 12, 13, 14, 15>>,
       <<1, 0, 3, 2, 5, 4, 7, 6, 9, 8, 11, 10, 13, 12, 15, 14>>,
       <<2, 3, 0, 1, 6, 7, 4, 5, 10, 11, 8, 9, 14, 15, 12, 13>>,
       <<3, 2, 1, 0, 7, 6, 5, 4, 11, 10, 9, 8, 15, 14, 13, 12>>,
       <<4, 5, 6, 7, 0, 1, 2, 3, 12, 13, 14, 15, 8, 9, 10, 11>>,
       <<5, 4, 7, 6, 1, 0, 3, 2, 13, 12, 15, 14, 9, 8, 11, 10>>,
       <<6, 7, 4, 5, 2, 3, 0, 1, 14, 15, 12, 13, 10, 11, 8, 9>>,
       <<7, 6, 5, 4, 3, 2, 1, 0, 15, 14, 13, 12, 11, 10, 9, 8>>,
       <<8, 9, 10, 11, 12, 13, 14, 15, 0, 1, 2, 3, 4, 5, 6, 7>>,
       <<9, 8, 11, 10, 13, 12, 15, 14, 1, 0, 3, 2, 5, 4, 7, 6>>,
       <<10, 11, 8, 9, 14, 15, 12, 13, 2, 3, 0, 1, 6, 7, 4, 5>>,
       <<11, 10, 9, 8, 15, 14, 13, 12, 3, 2, 1, 0, 7, 6, 5, 4>>,
       <<12, 13, 14, 15, 8, 9, 10, 11, 4, 5, 6, 7, 0, 1, 2, 3>>,
       <<13, 12, 15, 14, 9, 8, 11, 10, 5, 4, 7, 6, 1, 0, 3, 2>>,
       <<14, 15, 12, 13, 10, 11, 8, 9, 6, 7, 4, 5, 2, 3, 0, 1>>,
       <<15, 14, 13, 12, 11, 10, 9, 8, 7, 6, 5, 4, 3, 2, 1, 0>> >>

RECURSIVE xor_nibbles(_, _, _)
\* exclusive or of the n low nibbles of a and b
xor_nibbles(a, b, n) ==
    IF n = 0 THEN 0
    ELSE XorNibble[(a % 16) + 1][(b % 16) + 1] + 16 * xor_nibbles(a \div 16, b \div 16, n - 1)

\* exclusive or of two 16-bit numbers
xor_u16(a, b) == xor_nibbles(a, b, 4)

\* r ^ s on u64 limbs
xor_u64(r, s) == [i \in 1..4 |-> xor_u16(r[i], s[i])]

\* r >> bits on u64 limbs, for a shift that is a multiple of 8
shr(r, bits) ==
    LET q == bits \div 16
        low == 2 ^ (bits % 16)
        limb(j) == IF j <= 4 THEN r[j] ELSE 0
    IN  [i \in 1..4 |-> (limb(i + q) \div low) + (limb(i + q + 1) % low) * (LimbBase \div low)]

RECURSIVE xor_shifts(_, _)
\* r ^= r >> k for every k of shifts, in order
xor_shifts(r, shifts) ==
    IF shifts = <<>> THEN r
    ELSE xor_shifts(xor_u64(r, shr(r, Head(shifts))), Tail(shifts))

\* H::default(), a.hash(&mut h), b.hash(&mut h), h.finish(): the hasher H is
\* fasthash::mum::Hasher64, an external crate.  What matters of it here is that finish()
\* is a fixed function of the bytes written (the position, then the seed); it is
\* represented by a fixed mixing function of those words.
hasher_finish(a, b) ==
    LET h1 == (a * 251 + b[1] * 31 + b[2] * 17 + b[3] * 13 + b[4] * 7 + 40503) % LimbBase
        h2 == (h1 * 113 + a * 29 + b[1]) % LimbBase
        h3 == (h2 * 59 + b[1] * 3 + 7) % LimbBase
        h4 == (h3 * 211 + h1) % LimbBase
    IN  <<h1, h2, h3, h4>>

\* simple_hash2: the 64-bit hash, r ^= r >> 32; r ^= r >> 16; r ^= r >> 8; its low byte
simple_hash2(a, b) == xor_shifts(hasher_finish(a, b), <<32, 16, 8>>)[1] % 256

-----------------------------------------------------------------------------
(* Ant {position, last_position, state, explore_weight}                    *)

Foraging == [tag |-> "Foraging"]
Hauling(a) == [tag |-> "Hauling", amount |-> a]

\* explore_weight is a multiple of 1/EwDen
EwDen == 2

\* Ant::new_default
new_default(position, explore_weight) ==
    [position |-> position, last_position |-> position,
     state |-> Foraging, explore_weight |-> explore_weight]

\* an ant that keeps its last_position
stand_still_noop(ant) == ant

\* Ant::stand_still
stand_still(ant) == [ant EXCEPT !.last_position = ant.position]

\* _POINTS: the eight bias points on the unit circle, in hundredths
POINTS == << <<100, 0>>, <<71, 71>>, <<0, 100>>, <<-71, 71>>,
             <<-100, 0>>, <<-71, -71>>, <<0, -100>>, <<71, -71>> >>

RECURSIVE isqrt_search(_, _, _)
\* the largest s in lo..hi with s*s <= n
isqrt_search(n, lo, hi) ==
    IF lo >= hi THEN lo
    ELSE LET mid == (lo + hi + 1) \div 2
         IN  IF mid * mid <= n THEN isqrt_search(n, mid, hi) ELSE isqrt_search(n, lo, mid - 1)

\* a distance that is 0 everywhere
dist_of_zero(a, b) == 0

\* dist_of in move_to_next2: Euclidean distance, in hundredths
dist_of(a, b) ==
    LET dx == a[1] - b[1]
        dy == a[2] - b[2]
    IN  isqrt_search(dx * dx + dy * dy, 0, 1024)

-----------------------------------------------------------------------------
(* Ant::move_to_next2 (src/src/ant_sim_ant.rs)                             *)

\* the body of the inner scoring loop for one slot o of an arc.  acc carries p_home,
\* p_food, count, special_count of the current ring and the score of the direction.
\* A None slot is skipped; a Blocker is counted and then skipped.
score_cell(on, st, o, acc, nrings) ==
    LET scored(c) ==
            IF c.kind = "Blocker" THEN [acc EXCEPT !.count = acc.count + 1]
            ELSE LET count == acc.count + 1
                     p_home == acc.p_home + (IF c.kind = "Path" THEN c.pheromone_home ELSE 0)
                     p_food == acc.p_food + (IF c.kind = "Path" THEN c.pheromone_food ELSE 0)
                     special_count == acc.special_count +
                         (CASE c.kind = "Home" -> (IF st.tag = "Hauling" THEN 1000 ELSE 0)
                            [] c.kind = "Food" -> (IF st.tag = "Foraging" THEN c.amount * 8 ELSE 0)
                            [] OTHER -> 0)
                     \* p_home * p_home_weight + p_food * p_food_weight, in quarters
                     p_score == IF st.tag = "Foraging" THEN 4 * p_food - p_home
                                ELSE 4 * p_home - p_food
                     avg_score == (p_score + 4 * special_count) \div count
                 IN  [p_home |-> p_home, p_food |-> p_food, count |-> count,
                      special_count |-> special_count,
                      score |-> acc.score + (avg_score \div nrings)]
    IN  IF o = None THEN acc ELSE scored(cell(on, o))

\* edges_off when slot n is scored: 2 for every even slot before n
edges_off(n) == 2 * ((n - 1) \div 2)

\* the 0-based slot indices of ring r (0-based) that are scored for direction n
arc_indices(n, r, len) ==
    IF n = 0
    THEN [k \in 1..(1 + r * 4) |-> ((len - r * 2) + (k - 1)) % len]
    ELSE LET l_mult == IF n % 2 = 0 THEN 4 ELSE 2
         IN  [k \in 1..(1 + l_mult * r) |-> (n + r * edges_off(n)) + (k - 1)]

RECURSIVE arc_fold(_, _, _, _, _, _, _)
arc_fold(on, st, buffer, idx, k, acc, nrings) ==
    IF k > Len(idx) THEN acc
    ELSE arc_fold(on, st, buffer, idx, k + 1,
                  score_cell(on, st, buffer[idx[k] + 1], acc, nrings), nrings)

RECURSIVE ring_fold(_, _, _, _, _, _)
\* `for r in 0..buffers.len()`: the counters restart in every ring, the score carries over
ring_fold(on, st, bufs, n, r, score) ==
    IF r >= Len(bufs) THEN score
    ELSE LET acc == arc_fold(on, st, bufs[r + 1], arc_indices(n, r, Len(bufs[r + 1])), 1,
                             [p_home |-> 0, p_food |-> 0, count |-> 0,
                              special_count |-> 0, score |-> score], Len(bufs))
         IN  ring_fold(on, st, bufs, n, r + 1, acc.score)

\* the point of the first ring-1 slot that holds last_position, else (0, 0)
last_pos_point(bufs, last_position) ==
    IF \E i \in 1..8 : bufs[1][i] = last_position
    THEN POINTS[CHOOSE i \in 1..8 : bufs[1][i] = last_position
                                    /\ \A j \in 1..(i - 1) : bufs[1][j] # last_position]
    ELSE <<0, 0>>

\* the final score of the ring-1 slot n (0-based), which holds Some(pos):
\* score * (1 - explore_weight) + explore_weight * explore_score, times the distance of
\* the slot's point from last_pos
final_score(ant, seed, on, bufs, n, last_pos) ==
    LET blended(score) ==
            IF ant.explore_weight = 0 THEN score * EwDen
            ELSE score * (EwDen - ant.explore_weight)
                 + ant.explore_weight * (4 * simple_hash2(bufs[1][n + 1], seed))
    IN  blended(ring_fold(on, ant.state, bufs, n, 0, 0)) * dist_of(POINTS[n + 1], last_pos)

RECURSIVE select_from(_, _, _, _, _, _, _)
\* slot 0 and then `for n in 1..buffers[0].len()`: slot 0 is the choice when it is Some,
\* a later slot replaces the choice only with a greater score (any score is greater than
\* the NEG_INFINITY of a None slot 0)
select_from(ant, seed, on, bufs, last_pos, n, best) ==
    LET better(pos, score) ==
            IF pos # None /\ (best.neg_infinity \/ score > best.new_score)
            THEN [new_position |-> pos, new_score |-> score, neg_infinity |-> FALSE]
            ELSE best
    IN  IF n >= Len(bufs[1]) THEN best
        ELSE select_from(ant, seed, on, bufs, last_pos, n + 1,
                         better(bufs[1][n + 1], final_score(ant, seed, on, bufs, n, last_pos)))

\* a selection in which a later slot replaces the choice also with an equal score
select_position_last_tie(ant, seed, on, bufs) ==
    LET last_pos == last_pos_point(bufs, ant.last_position)
        some == { n \in 0..7 : bufs[1][n + 1] # None }
        fs == [n \in some |-> final_score(ant, seed, on, bufs, n, last_pos)]
    IN  IF some = {} THEN None
        ELSE bufs[1][1 + CHOOSE k \in some :
                             \A j \in some : fs[j] < fs[k] \/ (fs[j] = fs[k] /\ j <= k)]

\* new_position after both scoring passes: None when every ring-1 slot is None
select_position(ant, seed, on, bufs) ==
    select_from(ant, seed, on, bufs, last_pos_point(bufs, ant.last_position), 0,
                [new_position |-> None, new_score |-> 0, neg_infinity |-> TRUE]).new_position

\* on.cell(pos).unwrap() in the scoring loops succeeds for every position the rings hold
cells_unwrap(on, rings) ==
    \A r \in 1..Len(rings) : \A j \in 1..Len(rings[r]) :
        rings[r][j] # None => rings[r][j] \in DOMAIN on.contains

\* move_to_next2: [ok, ant, rings].  ok is FALSE when an assert or an unwrap fails,
\* neighbors aborts or new_position.unwrap() meets None; the ant is then as it was.
move_to_next2(ant, seed, on, bufs, overflow_checks) ==
    LET replaced(rings, new_position) ==
            IF new_position = None THEN [ok |-> FALSE, ant |-> ant, rings |-> rings]
            ELSE [ok |-> TRUE, rings |-> rings,
                  ant |-> [ant EXCEPT !.last_position = ant.position,
                                      !.position = new_position]]
        scored(n) ==
            replaced(n.rings, IF n.ok /\ cells_unwrap(on, n.rings)
                              THEN select_position(ant, seed, on, n.rings) ELSE None)
    IN  IF ~(Len(bufs) >= 1 /\ Len(bufs[1]) = 8) THEN [ok |-> FALSE, ant |-> ant, rings |-> bufs]
        ELSE scored(neighbors(on, ant.position, bufs, overflow_checks))

-----------------------------------------------------------------------------
(* AntSimulator {sim, ants, seed, config} and update (src/src/ant_sim.rs)  *)

\* an ant that always leaves with a full load
take_food_full_load(amount, haul_amount) ==
    IF amount > haul_amount
    THEN [haul |-> haul_amount, cell |-> Food(amount - haul_amount)]
    ELSE [haul |-> haul_amount, cell |-> Path(0, 0)]

\* a food cell that stays a food cell when it is emptied
take_food_keeps_cell(amount, haul_amount) ==
    [haul |-> min(amount, haul_amount), cell |-> Food(saturating_sub(amount, haul_amount))]

\* take_food: (haul_amount, new AntSimCell)
take_food(amount, haul_amount) ==
    IF amount > haul_amount
    THEN [haul |-> haul_amount, cell |-> Food(amount - haul_amount)]
    ELSE [haul |-> amount, cell |-> Path(0, 0)]

\* decay_path
decay_path(p_food, p_home, decay_by) == Path(dec_by(p_food, decay_by), dec_by(p_home, decay_by))

\* the closure mapped over from.cells() in decay_pheromones
decay_cell(c, decay_amount) ==
    IF c.kind = "Path" THEN decay_path(c.pheromone_food, c.pheromone_home, decay_amount) ELSE c

\* a decay pass that writes the Path cells only
decay_pheromones_paths_only(from, on_sim, decay_amount) ==
    [on_sim EXCEPT !.contains =
        [p \in DOMAIN on_sim.contains |->
            IF p \in DOMAIN from.contains /\ to_cell(from.contains[p]).kind = "Path"
            THEN from_cell(decay_cell(to_cell(from.contains[p]), decay_amount))
            ELSE on_sim.contains[p]]]

\* decay_pheromones: every cell of `from`, decayed, is set on on_sim
decay_pheromones(from, on_sim, decay_amount) ==
    [on_sim EXCEPT !.contains =
        [p \in DOMAIN on_sim.contains |->
            IF p \in DOMAIN from.contains
            THEN from_cell(decay_cell(to_cell(from.contains[p]), decay_amount))
            ELSE on_sim.contains[p]]]

\* the body of the loop of update_ants for the ant at index i (0-based).
\* acc = [ok, ants, sim, rings]: the destination ants and grid and the scratch rings so far.
update_ant(self, i, acc, overflow_checks) ==
    LET ant == acc.ants[i + 1]
        took(t) ==
            [acc EXCEPT !.ants[i + 1] = stand_still([ant EXCEPT !.state = Hauling(t.haul)]),
                        !.sim = set_cell(acc.sim, ant.position, t.cell)]
        moved(m) == [acc EXCEPT !.ok = m.ok, !.ants[i + 1] = m.ant, !.rings = m.rings]
        seeded(seed) ==
            IF seed.overflow /\ overflow_checks THEN [acc EXCEPT !.ok = FALSE]
            ELSE moved(move_to_next2(ant, seed.val, self.sim, acc.rings, overflow_checks))
        arm(here) ==
            IF here = NoCell THEN [acc EXCEPT !.ok = FALSE]
            ELSE IF here.kind = "Food" /\ ant.state.tag = "Foraging"
            THEN took(take_food(here.amount, self.config.food_haul_amount))
            ELSE IF here.kind = "Home" /\ ant.state.tag = "Hauling"
            THEN [acc EXCEPT !.ants[i + 1] = [stand_still(ant) EXCEPT !.state = Foraging]]
            ELSE seeded(add_u64(self.seed, U64(i)))
    IN  arm(cell(self.sim, ant.position))

RECURSIVE update_ants_from(_, _, _, _)
update_ants_from(self, i, acc, overflow_checks) ==
    IF i >= Len(acc.ants) \/ ~acc.ok THEN acc
    ELSE update_ants_from(self, i + 1, update_ant(self, i, acc, overflow_checks), overflow_checks)

\* update_ants: [ok, ants, sim, rings]; a panic stops the loop where it is
update_ants(self, ants, update_into, visual_buffer, overflow_checks) ==
    update_ants_from(self, 0,
        [ok |-> TRUE, ants |-> ants, sim |-> update_into, rings |-> visual_buffer],
        overflow_checks)

\* AntSimVecImpl::decay_pheromones_on: [ok, on]; the assert_eq on the lengths is the ok flag
decay_pheromones_on(self, on, by) ==
    IF cell_count(self) # cell_count(on) THEN [ok |-> FALSE, on |-> on]
    ELSE [ok |-> TRUE,
          on |-> [on EXCEPT !.contains =
                     [p \in DOMAIN on.contains |->
                         with_decreased_pheromone(self.contains[p], by)]]]

\* the two channels exchanged
trail_cell_swapped(c, st) ==
    IF c.kind = "Path"
    THEN IF st.tag = "Foraging"
         THEN Path(U16_MAX - 1, c.pheromone_home)
         ELSE Path(c.pheromone_food, U16_MAX - 1)
    ELSE c

\* a deposit one above the largest pheromone value
trail_cell_max(c, st) ==
    IF c.kind = "Path"
    THEN IF st.tag = "Foraging"
         THEN Path(c.pheromone_food, U16_MAX)
         ELSE Path(U16_MAX, c.pheromone_home)
    ELSE c

\* a deposit that turns whatever the ant stands on into a path
trail_cell_paves(c, st) ==
    IF st.tag = "Foraging"
    THEN Path(IF c.kind = "Path" THEN c.pheromone_food ELSE 0, U16_MAX - 1)
    ELSE Path(U16_MAX - 1, IF c.kind = "Path" THEN c.pheromone_home ELSE 0)

\* the new cell computed in update_ant_trail for an ant in state st on cell c
trail_cell(c, st) ==
    IF c.kind = "Path"
    THEN IF st.tag = "Foraging"
         THEN Path(c.pheromone_food, U16_MAX - 1)
         ELSE Path(U16_MAX - 1, c.pheromone_home)
    ELSE c

RECURSIVE update_ant_trail_from(_, _, _)
update_ant_trail_from(old_ants, i, update_into) ==
    IF i > Len(old_ants) THEN update_into
    ELSE LET ant == old_ants[i]
         IN  update_ant_trail_from(old_ants, i + 1,
                 set_cell(update_into, ant.position,
                          trail_cell(cell(update_into, ant.position), ant.state)))

\* update_ant_trail
update_ant_trail(old_ants, update_into) == update_ant_trail_from(old_ants, 1, update_into)

\* AntSimulator::update: [ok, into].  When ok is FALSE the process has aborted and into is
\* the destination as the abort left it.
update(self, update_into, overflow_checks) ==
    LET cloned == [update_into EXCEPT !.ants = self.ants]
        vb == buffers(update_into.config.visual_range, update_into.config.visual_range.range)
        written(ua) ==
            [update_into EXCEPT !.ants = ua.ants, !.sim = ua.sim,
                                !.config.visual_range = write_back(@, ua.rings)]
        trailed(into) ==
            [into EXCEPT !.sim = update_ant_trail(self.ants, into.sim),
                         !.seed = wrapping_add(self.seed, self.config.seed_step)]
        finished(ua) ==
            IF ~ua.ok THEN [ok |-> FALSE, into |-> written(ua)]
            ELSE [ok |-> TRUE, into |-> trailed(written(ua))]
    IN  IF ~check_compatible(self.sim, update_into.sim) THEN [ok |-> FALSE, into |-> update_into]
        ELSE IF Len(update_into.ants) # Len(self.ants) THEN [ok |-> FALSE, into |-> update_into]
        ELSE IF ~vb.ok THEN [ok |-> FALSE, into |-> cloned]
        ELSE finished(update_ants(self, self.ants,
                          decay_pheromones(self.sim, update_into.sim,
                                           self.config.pheromone_decay_amount),
                          vb.rings, overflow_checks))

-----------------------------------------------------------------------------
(* Construction                                                            *)

MaxTicks == 2
MaxEdits == 1
MaxAnts == 2

RECURSIVE set_cells(_, _, _)
\* set_cell for every entry of a row-major list of cells, as the loaders and main() do
set_cells(sim, cells, i) ==
    IF i > Len(cells) THEN sim ELSE set_cells(set_cell(sim, i - 1, cells[i]), cells, i + 1)

P0 == Path(0, 0)

\* The boards and configurations the simulators are built from.
Scenarios ==
    { [name |-> "forage", width |-> 3, height |-> 3,
       cells |-> << Food(3), P0,   Blocker,
                    P0,      Home, P0,
                    Path(5, 3), P0, Food(1) >>,
       food_haul_amount |-> 2, pheromone_decay_amount |-> 4,
       seed |-> U64(42), seed_step |-> U64(17), range |-> 1, weights |-> {0, 1}],
      [name |-> "walled", width |-> 3, height |-> 3,
       cells |-> << Blocker, Blocker, Blocker,
                    Blocker, P0,      P0,
                    Blocker, Blocker, Blocker >>,
       food_haul_amount |-> 2, pheromone_decay_amount |-> 0,
       seed |-> U64(1), seed_step |-> U64(1), range |-> 1, weights |-> {0}],
      [name |-> "trails", width |-> 3, height |-> 3,
       cells |-> << Path(65534, 2), P0,   Home,
                    P0,             P0,   Path(1, 65534),
                    Food(5),        P0,   P0 >>,
       food_haul_amount |-> 5, pheromone_decay_amount |-> 65535,
       seed |-> U64_MAX, seed_step |-> U64(1), range |-> 2, weights |-> {1}] }

\* the simulator a scenario and an ant list build
build(scn, ants) ==
    [sim |-> set_cells(new_grid(scn.width, scn.height), scn.cells, 1),
     ants |-> ants,
     seed |-> scn.seed,
     config |-> [food_haul_amount |-> scn.food_haul_amount,
                 pheromone_decay_amount |-> scn.pheromone_decay_amount,
                 seed_step |-> scn.seed_step,
                 visual_range |-> new_visual_range(scn.range)]]

\* the first ant: anywhere, either state, any weight of the scenario
FirstAnts(scn) ==
    { [position |-> p, last_position |-> p, state |-> st, explore_weight |-> e] :
        p \in 0..(scn.width * scn.height - 1), st \in {Foraging, Hauling(1)}, e \in scn.weights }

\* further ants: a forager in the corner or a hauler in the centre
MoreAnts(scn) ==
    { new_default(0, 0),
      [new_default((scn.width * scn.height) \div 2, 0) EXCEPT !.state = Hauling(1)] }

RECURSIVE AntLists(_, _)
AntLists(scn, n) ==
    IF n = 1 THEN { <<a>> : a \in FirstAnts(scn) }
    ELSE AntLists(scn, n - 1)
         \cup { Append(l, a) : l \in { k \in AntLists(scn, n - 1) : Len(k) = n - 1 },
                               a \in MoreAnts(scn) }

\* cells set_cell is called with after construction
EditCells == { Blocker, Path(7, 65534) }
EditPositions == { 4 }

NoHarness == [sim |-> new_grid(1, 1), rings |-> <<>>, center |-> None, calls |-> 0, ok |-> TRUE]

Init ==
    /\ \E scn \in Scenarios : \E ants \in AntLists(scn, MaxAnts) :
          LET s == build(scn, ants) IN state = <<s, s>>
    /\ twin = <<>>
    /\ status = "ok"
    /\ lastOp = "new"
    /\ ticks = 0
    /\ edits = 0
    /\ nb = NoHarness

\* The build profiles that this tick can tell apart: overflow checks on (a debug build) or
\* off.  They differ only when a checked addition or subtraction overflows.
OverflowChecks(self) ==
    IF add_u64(self.seed, U64(Len(self.ants))).overflow \/ self.sim.width # self.sim.height
    THEN BOOLEAN ELSE {FALSE}

\* one pass of the loop of main_loop: prev.update(new); swap(prev, new)
step(pair, overflow_checks) ==
    LET swapped(res) ==
            [ok |-> res.ok,
             pair |-> IF res.ok THEN <<res.into, pair[1]>> ELSE <<pair[1], res.into>>]
    IN  swapped(update(pair[1], pair[2], overflow_checks))

Tick ==
    /\ status = "ok"
    /\ ticks < MaxTicks
    /\ \E oc \in OverflowChecks(state[1]) : \E res \in {step(state, oc)} :
          /\ state' = res.pair
          /\ status' = IF res.ok THEN "ok" ELSE "panic"
    /\ lastOp' = "update"
    /\ ticks' = ticks + 1
    /\ UNCHANGED <<twin, edits, nb>>

\* set_cell on the current simulator between two ticks
SetCell ==
    /\ status = "ok"
    /\ edits < MaxEdits
    /\ \E p \in EditPositions : \E c \in EditCells :
          state' = <<[state[1] EXCEPT !.sim = set_cell(@, p, c)], state[2]>>
    /\ lastOp' = "set_cell"
    /\ edits' = edits + 1
    /\ UNCHANGED <<twin, status, ticks, nb>>

Next == Tick \/ SetCell

Spec == Init /\ [][Next]_vars

-----------------------------------------------------------------------------
(* Two simulators built alike.  The second pair of buffers starts from the same source;
   its destination is a simulator of the same dimensions and ant count whose grid, ant
   values and seed are left over from something else.                                   *)

LeftOver(s) ==
    [s EXCEPT !.sim.contains = [p \in DOMAIN @ |-> from_cell(IF p % 2 = 0 THEN Blocker ELSE Food(9))],
              !.ants = [i \in DOMAIN @ |-> [new_default(0, EwDen) EXCEPT !.state = Hauling(7)]],
              !.seed = U64(7)]

InitTwin ==
    /\ \E scn \in Scenarios : \E ants \in AntLists(scn, MaxAnts) :
          LET s == build(scn, ants)
          IN  /\ state = <<s, s>>
              /\ twin = <<s, LeftOver(s)>>
    /\ status = "ok"
    /\ lastOp = "new"
    /\ ticks = 0
    /\ edits = 0
    /\ nb = NoHarness

\* both pairs make one pass of the loop, in the same build;
\* status is "diverged" when one update completes and the other aborts
TickTwin ==
    /\ status = "ok"
    /\ ticks < MaxTicks
    /\ \E oc \in OverflowChecks(state[1]) :
          \E a \in {step(state, oc)} : \E b \in {step(twin, oc)} :
              /\ state' = a.pair
              /\ twin' = b.pair
              /\ status' = IF a.ok /\ b.ok THEN "ok"
                           ELSE IF a.ok = b.ok THEN "panic" ELSE "diverged"
    /\ lastOp' = "update"
    /\ ticks' = ticks + 1
    /\ UNCHANGED <<edits, nb>>

NextTwin == TickTwin

SpecTwin == InitTwin /\ [][NextTwin]_vars

-----------------------------------------------------------------------------
(* update into any destination.  update takes its destination from the caller; main_loop
   hands it a clone of the source, but nothing in update requires that.  The pair starts
   as <<source, destination>> with a destination that may differ from the source in its
   grid, ant values, seed, grid dimensions or number of ants; twin records the pair as it
   was before the last call.                                                           *)

\* a destination with a fresh grid of other dimensions
WithGrid(s, width, height) == [s EXCEPT !.sim = new_grid(width, height)]

Destinations(s) ==
    { s,
      LeftOver(s),
      WithGrid(s, s.sim.width + 1, s.sim.height),
      WithGrid(s, s.sim.width, s.sim.height + 1),
      WithGrid(s, s.sim.width * s.sim.height, 1),
      [s EXCEPT !.ants = SubSeq(@, 1, Len(@) - 1)],
      [s EXCEPT !.ants = Append(@, new_default(0, 0))] }

InitInto ==
    /\ \E scn \in Scenarios : \E ants \in AntLists(scn, MaxAnts) :
          \E d \in Destinations(build(scn, ants)) :
              state = <<build(scn, ants), d>>
    /\ twin = <<>>
    /\ status = "ok"
    /\ lastOp = "new"
    /\ ticks = 0
    /\ edits = 0
    /\ nb = NoHarness

\* one pass of the loop; the pair before the call is kept in twin
UpdateInto ==
    /\ status = "ok"
    /\ ticks < MaxTicks
    /\ \E oc \in OverflowChecks(state[1]) : \E res \in {step(state, oc)} :
          /\ state' = res.pair
          /\ status' = IF res.ok THEN "ok" ELSE "panic"
    /\ twin' = state
    /\ lastOp' = "update"
    /\ ticks' = ticks + 1
    /\ UNCHANGED <<edits, nb>>

NextInto == UpdateInto

SpecInto == InitInto /\ [][NextInto]_vars

-----------------------------------------------------------------------------
(* The save loader (src/ant_sim_save/src/lib.rs).  AntSimData {env, ants, board} is what
   a save file deserialises to; try_into_board turns it into a simulator or rejects it.
   The eight bias points of the file are the ones of POINTS, and an exploration_factor is
   a multiple of 1/EwDen, as everywhere in this module.                               *)

\* the Err of a Result whose Ok is a record
Err == [kind |-> "Err"]

\* Dimensions::decode: Result<AntPosition, ()>
Dimensions_decode(dimensions, pos) ==
    IF pos \div dimensions.width >= dimensions.height THEN Err
    ELSE [x |-> pos % dimensions.width, y |-> pos \div dimensions.width]

\* dimensions.decode(pos).and_then(|pos| on.encode(pos).ok_or(())): None for Err
decode_pos(on, dimensions, pos) ==
    LET encoded(c) == IF c = Err THEN None ELSE encode(on, c.x, c.y)
    IN  encoded(Dimensions_decode(dimensions, pos))

\* the closure the front ends pass as get_a: AntSimVecImpl::new
get_a(dimensions) ==
    IF dimensions.width = 0 \/ dimensions.height = 0 THEN Err
    ELSE new_grid(dimensions.width, dimensions.height)

\* AntSimAntData::try_into_ant
try_into_ant(ant, on, dimensions) ==
    LET made(pos, last_pos) ==
            IF pos = None \/ last_pos = None THEN Err
            ELSE [position |-> pos, last_position |-> last_pos,
                  explore_weight |-> ant.exploration_factor, state |-> ant.state]
    IN  made(decode_pos(on, dimensions, ant.position),
             decode_pos(on, dimensions, ant.last_position))

\* a conversion that takes every pair of values
pheromone_to_cell_unchecked(p_data) == Path(p_data.p_f, p_data.p_h)

\* AntSimPathPheromoneData::to_cell
pheromone_to_cell(p_data) ==
    IF p_data.p_f = U16_MAX \/ p_data.p_h = U16_MAX THEN Err
    ELSE Path(p_data.p_f, p_data.p_h)

\* the four loops of try_apply_to_board as one list of (position, cell), in their order
board_entries(board) ==
    [i \in 1..Len(board.blockers) |-> [pos |-> board.blockers[i], cell |-> Blocker]]
    \o [i \in 1..Len(board.homes) |-> [pos |-> board.homes[i], cell |-> Home]]
    \o [i \in 1..Len(board.foods) |->
            [pos |-> board.foods[i][1], cell |-> Food(board.foods[i][2])]]
    \o [i \in 1..Len(board.paths_with_pheromones) |->
            [pos |-> board.paths_with_pheromones[i][1],
             cell |-> pheromone_to_cell(board.paths_with_pheromones[i][2])]]

RECURSIVE apply_entries(_, _, _, _)
apply_entries(board, dimensions, entries, i) ==
    LET applied(pos) ==
            IF pos = None \/ entries[i].cell = Err THEN Err
            ELSE apply_entries(set_cell(board, pos, entries[i].cell), dimensions, entries, i + 1)
    IN  IF i > Len(entries) THEN board
        ELSE applied(decode_pos(board, dimensions, entries[i].pos))

\* AntSimBoardData::try_apply_to_board: the board with the cells set, or Err
try_apply_to_board(data, board, dimensions) ==
    apply_entries(board, dimensions, board_entries(data), 1)

\* the largest ant_visual_range try_into_board accepts
MaxVisualRange == 20

\* AntSimData::try_into_board: the simulator, or Err
try_into_board(data) ==
    LET built(a, ants) ==
            IF a = Err \/ data.env.ant_visual_range > MaxVisualRange THEN Err
            ELSE [sim |-> a,
                  ants |-> ants,
                  seed |-> data.env.seed,
                  config |-> [food_haul_amount |-> data.env.haul_amount,
                              pheromone_decay_amount |-> data.env.decay_rate,
                              seed_step |-> U64(Len(ants)),
                              visual_range |-> new_visual_range(data.env.ant_visual_range)]]
        with_ants(a, ants) ==
            IF \E i \in 1..Len(ants) : ants[i] = Err THEN Err
            ELSE built(try_apply_to_board(data.board, a, data.env.dimensions), ants)
        on(a) ==
            IF a = Err THEN Err
            ELSE with_ants(a, [i \in 1..Len(data.ants) |->
                                   try_into_ant(data.ants[i], a, data.env.dimensions)])
    IN  on(get_a(data.env.dimensions))

\* Dimensions::encode: Result<u64, ()>, None for Err
Dimensions_encode(dimensions, ant_pos) ==
    IF ant_pos.x >= dimensions.width \/ ant_pos.y >= dimensions.height THEN None
    ELSE ant_pos.y * dimensions.width + ant_pos.x

\* AntSimAntData::try_from_ant
try_from_ant(ant, on, dimensions) ==
    LET data(position, last_position) ==
            IF position = None \/ last_position = None THEN Err
            ELSE [position |-> position, last_position |-> last_position,
                  exploration_factor |-> ant.explore_weight, state |-> ant.state]
    IN  data(Dimensions_encode(dimensions, decode(on, ant.position)),
             Dimensions_encode(dimensions, decode(on, ant.last_position)))

RECURSIVE board_lists(_, _, _, _)
\* the try_for_each over board.cells(): every cell but Path{0, 0} is pushed on the list
\* of its kind, in the order of the positions
board_lists(board, dimensions, p, result) ==
    LET pushed(pos, c) ==
            IF pos = None THEN Err
            ELSE board_lists(board, dimensions, p + 1,
                CASE c.kind = "Blocker" -> [result EXCEPT !.blockers = Append(@, pos)]
                  [] c.kind = "Home" -> [result EXCEPT !.homes = Append(@, pos)]
                  [] c.kind = "Food" -> [result EXCEPT !.foods = Append(@, <<pos, c.amount>>)]
                  [] c.kind = "Path" ->
                        IF c.pheromone_food # 0 \/ c.pheromone_home # 0
                        THEN [result EXCEPT !.paths_with_pheromones =
                                 Append(@, <<pos, [p_h |-> c.pheromone_home,
                                                   p_f |-> c.pheromone_food]>>)]
                        ELSE result)
    IN  IF p >= cell_count(board) THEN result
        ELSE pushed(Dimensions_encode(dimensions, decode(board, p)), cell(board, p))

\* AntSimBoardData::try_from_board
try_from_board(board, dimensions) ==
    board_lists(board, dimensions, 0,
        [blockers |-> <<>>, homes |-> <<>>, foods |-> <<>>, paths_with_pheromones |-> <<>>])

\* u8::MAX: ant_visual_range is a u8
U8_MAX == 255

\* AntSimData::from_state_sim: the save data, or Err
from_state_sim(sim) ==
    LET env ==
            [seed |-> sim.seed,
             decay_rate |-> sim.config.pheromone_decay_amount,
             haul_amount |-> sim.config.food_haul_amount,
             ant_visual_range |-> sim.config.visual_range.range,
             dimensions |-> [width |-> sim.sim.width, height |-> sim.sim.height]]
        res(ants, board) ==
            IF sim.config.visual_range.range > U8_MAX THEN Err
            ELSE IF \E i \in 1..Len(ants) : ants[i] = Err THEN Err
            ELSE IF board = Err THEN Err
            ELSE [env |-> env, ants |-> ants, board |-> board]
    IN  res([i \in 1..Len(sim.ants) |-> try_from_ant(sim.ants[i], sim.sim, env.dimensions)],
            try_from_board(sim.sim, env.dimensions))

\* The save files that are loaded.
SaveDimensions ==
    { [width |-> 0, height |-> 2], [width |-> 1, height |-> 1],
      [width |-> 2, height |-> 2], [width |-> 3, height |-> 2] }

SaveRanges == { 0, 1, MaxVisualRange + 1 }

SaveSeeds == { U64(3), U64_MAX }

SaveBoards ==
    { [blockers |-> <<>>, homes |-> <<>>, foods |-> <<>>, paths_with_pheromones |-> <<>>],
      [blockers |-> <<>>, homes |-> <<0>>, foods |-> <<<<1, 3>>>>,
       paths_with_pheromones |-> <<>>],
      [blockers |-> <<1>>, homes |-> <<>>, foods |-> <<>>,
       paths_with_pheromones |-> <<<<0, [p_h |-> 2, p_f |-> 65534]>>>>],
      [blockers |-> <<>>, homes |-> <<>>, foods |-> <<>>,
       paths_with_pheromones |-> <<<<0, [p_h |-> 2, p_f |-> U16_MAX]>>>>] }

SaveAnts ==
    { [position |-> p, last_position |-> p, exploration_factor |-> e, state |-> st] :
        p \in { 0, 1, 3, 6 }, e \in { 0, 1 }, st \in { Foraging, Hauling(1) } }

SaveAntLists(n) ==
    UNION { [1..k -> SaveAnts] : k \in 0..(n - 1) }

SaveFiles ==
    { [env |-> [seed |-> sd, decay_rate |-> 1, haul_amount |-> 2,
                ant_visual_range |-> r, dimensions |-> d],
       ants |-> ants, board |-> b] :
        sd \in SaveSeeds, r \in SaveRanges, d \in SaveDimensions,
        ants \in SaveAntLists(MaxAnts), b \in SaveBoards }

\* decode_save: the bytes do not arrive (FailedToRead), do not deserialise to an
\* AntSimData (InvalidFormat), or deserialise to data that try_into_board takes or rejects
decode_save(input) ==
    LET converted(sim) ==
            IF sim = Err THEN [tag |-> "InvalidData", sim |-> Err]
            ELSE [tag |-> "Ok", sim |-> sim]
    IN  CASE input.kind = "unreadable" -> [tag |-> "FailedToRead", sim |-> Err]
          [] input.kind = "malformed" -> [tag |-> "InvalidFormat", sim |-> Err]
          [] input.kind = "data" -> converted(try_into_board(input.data))

\* what decode_save is given: the save files, the files with an ant whose last position
\* alone is off the board, and input that cannot be read or parsed
SaveInputs ==
    { [kind |-> "data", data |-> d] : d \in SaveFiles }
    \cup { [kind |-> "data",
            data |-> [d EXCEPT !.ants = [i \in 1..Len(@) |-> [@[i] EXCEPT !.last_position = 6]]]] :
            d \in { f \in SaveFiles : Len(f.ants) > 0 /\ f.ants[1].position = 0 } }
    \cup { [kind |-> "unreadable", data |-> Err], [kind |-> "malformed", data |-> Err] }

InitDecode ==
    /\ nb = [op |-> "none", input |-> [kind |-> "none", data |-> Err], tag |-> "none"]
    /\ state = <<>>
    /\ twin = <<>>
    /\ status = "empty"
    /\ lastOp = "new"
    /\ ticks = 0
    /\ edits = 0

\* decode_save on one input; a simulator that comes out is cloned for the loop
DecodeSave ==
    /\ status = "empty"
    /\ \E input \in SaveInputs : \E res \in {decode_save(input)} :
          /\ nb' = [op |-> "decode_save", input |-> input, tag |-> res.tag]
          /\ IF res.tag = "Ok"
             THEN state' = <<res.sim, res.sim>> /\ status' = "ok"
             ELSE state' = <<>> /\ status' = "rejected"
    /\ lastOp' = "load"
    /\ UNCHANGED <<twin, ticks, edits>>

NextDecode == DecodeSave

SpecDecode == InitDecode /\ [][NextDecode]_vars

\* nothing is loaded yet
InitSave ==
    /\ state = <<>>
    /\ twin = <<>>
    /\ status = "empty"
    /\ lastOp = "new"
    /\ ticks = 0
    /\ edits = 0
    /\ nb = NoHarness

\* decode_save / read_save: the file is rejected, or the simulator and its clone are the
\* two buffers of the loop
LoadSave ==
    /\ status = "empty"
    /\ \E data \in SaveFiles : \E sim \in {try_into_board(data)} :
          IF sim = Err
          THEN state' = <<>> /\ status' = "rejected"
          ELSE state' = <<sim, sim>> /\ status' = "ok"
    /\ lastOp' = "load"
    /\ UNCHANGED <<twin, ticks, edits, nb>>

NextSave == LoadSave \/ Tick

SpecSave == InitSave /\ [][NextSave]_vars

-----------------------------------------------------------------------------
(* encode and decode on their own: a grid, and the last call with what it was given and
   what it returned.  After encode the position is decoded again, after decode the
   coordinate is encoded again.                                                        *)

MaxCoord == 5

CodecDims == { <<3, 3>>, <<4, 3>>, <<3, 4>> }

\* the coordinate that stands for "nothing decoded"
NoCoord == [x |-> None, y |-> None]

InitCodec ==
    /\ \E d \in CodecDims :
          nb = [sim |-> new_grid(d[1], d[2]), op |-> "new", x |-> 0, y |-> 0,
                position |-> None, decoded |-> NoCoord, reencoded |-> None]
    /\ state = <<>>
    /\ twin = <<>>
    /\ status = "ok"
    /\ lastOp = "new"
    /\ ticks = 0
    /\ edits = 0

\* sim.encode(AntPosition {x, y}), and sim.decode of the position when there is one
EncodeCoord ==
    /\ \E x \in 0..MaxCoord : \E y \in 0..MaxCoord : \E p \in {encode(nb.sim, x, y)} :
          nb' = [nb EXCEPT !.op = "encode", !.x = x, !.y = y, !.position = p,
                           !.decoded = IF p = None THEN NoCoord ELSE decode(nb.sim, p),
                           !.reencoded = None]
    /\ lastOp' = "encode"
    /\ UNCHANGED <<state, twin, status, ticks, edits>>

\* sim.decode(p) for a position of the grid, and sim.encode of the coordinate
DecodePosition ==
    /\ \E p \in Positions(nb.sim) : \E c \in {decode(nb.sim, p)} :
          nb' = [nb EXCEPT !.op = "decode", !.x = c.x, !.y = c.y, !.position = p,
                           !.decoded = c, !.reencoded = encode(nb.sim, c.x, c.y)]
    /\ lastOp' = "decode"
    /\ UNCHANGED <<state, twin, status, ticks, edits>>

NextCodec == EncodeCoord \/ DecodePosition

SpecCodec == InitCodec /\ [][NextCodec]_vars

-----------------------------------------------------------------------------
(* The packed cell on its own: cell values of the four variants with fields at both ends
   of the u16 range, and the last call with what it was given and what it returned.   *)

CellEdge == 2

\* u16 values within CellEdge of either end of the range
EdgeValues == (0..CellEdge) \cup ((U16_MAX - CellEdge)..U16_MAX)

\* AntSimCell with valid fields: NonMaxU16 excludes u16::MAX
CellValues ==
    { Path(pf, ph) : pf \in EdgeValues \ {U16_MAX}, ph \in EdgeValues \ {U16_MAX} }
    \cup { Blocker, Home }
    \cup { Food(a) : a \in EdgeValues }

NoPacked == [p1 |-> 0, p2 |-> 0]

\* rows of cells that grids are built from
CellRows ==
    { << Food(U16_MAX), Blocker, Home, Path(U16_MAX - 1, 1) >>,
      << Path(2, 0), Food(0), Path(1, U16_MAX - 2), Home, Food(1) >> }

\* no call yet; every call starts its record from this one
NoCall ==
    [op |-> "new", cell |-> P0, packed |-> NoPacked, unpacked |-> P0,
     asserts |-> TRUE, amount |-> 0, fast |-> NoPacked, generic |-> NoPacked,
     from |-> new_grid(1, 1), on_fast |-> new_grid(1, 1), on_generic |-> new_grid(1, 1)]

InitCell ==
    /\ nb = NoCall
    /\ state = <<>>
    /\ twin = <<>>
    /\ status = "ok"
    /\ lastOp = "new"
    /\ ticks = 0
    /\ edits = 0

\* AntSimCellImpl::from_cell(cell).to_cell()
PackCell ==
    /\ \E c \in CellValues : \E packed \in {from_cell(c)} :
          nb' = [NoCall EXCEPT !.op = "pack", !.cell = c, !.packed = packed,
                           !.unpacked = to_cell(packed),
                           !.asserts = to_cell_debug_assert(packed)]
    /\ lastOp' = "pack"
    /\ UNCHANGED <<state, twin, status, ticks, edits>>

\* c.with_decreased_pheromone(by) next to from_cell of the decay closure on c.to_cell()
DecayPacked ==
    /\ \E c \in CellValues : \E by \in EdgeValues : \E packed \in {from_cell(c)} :
          nb' = [NoCall EXCEPT !.op = "decay", !.cell = c, !.packed = packed, !.amount = by,
                           !.unpacked = to_cell(packed),
                           !.asserts = to_cell_debug_assert(packed),
                           !.fast = with_decreased_pheromone(packed, by),
                           !.generic = from_cell(decay_cell(to_cell(packed), by))]
    /\ lastOp' = "decay"
    /\ UNCHANGED <<state, twin, status, ticks, edits>>

\* from.decay_pheromones_on(on, by) next to decay_pheromones(from, on, by), for a row of
\* cells and a destination that is fresh or a copy of the row
DecayGrid ==
    /\ \E row \in CellRows : \E by \in EdgeValues : \E fresh \in BOOLEAN :
          \E from \in {set_cells(new_grid(Len(row), 1), row, 1)} :
          \E on \in {IF fresh THEN new_grid(Len(row), 1) ELSE from} :
              nb' = [NoCall EXCEPT !.op = "decay_grid", !.amount = by, !.from = from,
                               !.asserts = decay_pheromones_on(from, on, by).ok,
                               !.on_fast = decay_pheromones_on(from, on, by).on,
                               !.on_generic = decay_pheromones(from, on, by)]
    /\ lastOp' = "decay_grid"
    /\ UNCHANGED <<state, twin, status, ticks, edits>>

NextCell == PackCell \/ DecayPacked \/ DecayGrid

SpecCell == InitCell /\ [][NextCell]_vars

-----------------------------------------------------------------------------
(* AntSimVecImpl::new on its own: the last call with its dimensions and its result.   *)

MaxDim == 17

InitNew ==
    /\ nb = [op |-> "none", width |-> 0, height |-> 0, alloc |-> TRUE,
             result |-> [tag |-> "none", panicked |-> FALSE, grid |-> new_grid(1, 1)]]
    /\ state = <<>>
    /\ twin = <<>>
    /\ status = "ok"
    /\ lastOp = "new"
    /\ ticks = 0
    /\ edits = 0

\* AntSimVecImpl::new(width, height), in either build profile, with an allocator that
\* grants the request or not
CallNew ==
    /\ \E width \in 0..MaxDim : \E height \in 0..MaxDim :
       \E alloc \in BOOLEAN : \E oc \in BOOLEAN :
          nb' = [op |-> "new", width |-> width, height |-> height, alloc |-> alloc,
                 result |-> AntSimVecImpl_new(width, height, alloc, oc)]
    /\ lastOp' = "AntSimVecImpl::new"
    /\ UNCHANGED <<state, twin, status, ticks, edits>>

NextNew == CallNew

SpecNew == InitNew /\ [][NextNew]_vars

-----------------------------------------------------------------------------
(* Saving and loading a running simulation.  The current simulator is written with
   from_state_sim and read back with try_into_board onto a grid of its dimensions; the
   loop goes on with what was read and a clone of it.  twin keeps the two buffers as
   they were when the first of them was saved.                                         *)

InitReload == Init

\* write_save of the current simulator followed by read_save
SaveReload ==
    /\ status = "ok"
    /\ edits < MaxEdits
    /\ \E data \in {from_state_sim(state[1])} :
       \E sim \in {IF data = Err THEN Err ELSE try_into_board(data)} :
          IF sim = Err
          THEN state' = state /\ status' = "rejected"
          ELSE state' = <<sim, sim>> /\ status' = "ok"
    /\ twin' = state
    /\ lastOp' = "reload"
    /\ edits' = edits + 1
    /\ UNCHANGED <<ticks, nb>>

\* the loop of main_loop, as in Tick
TickReload ==
    /\ Tick
    /\ UNCHANGED twin

NextReload == TickReload \/ SaveReload

SpecReload == InitReload /\ [][NextReload]_vars

-----------------------------------------------------------------------------
(* main_loop of the windowed front end: the simulation thread and the closure of the
   event loop share Mutex<(prev, new)> and the Condvar proceed.  state is the pair in
   the mutex.  nb holds the threads: where the simulation thread is (sim_pc), where the
   closure is (render_pc), who holds the mutex, whether a user event is pending, the seed
   of the buffer drawn last, and whether a notify_all found no thread waiting.
     sim_pc: "lock"      in state.lock(), before the loop
             "update"    holds the mutex, in prev.update(new) and swap
             "wait_timeout"  waiting on proceed, mutex released
             "timed_out" wait_timeout has timed out and is taking the mutex again
             "woken"     a wait was notified (or woke by itself) and is taking the mutex
             "send_event" holds the mutex, after a timeout, before proceed.wait
             "wait"      waiting on proceed in proceed.wait, mutex released
     render_pc: "idle", "draw" (holds the mutex), "dropped" (guard dropped, before
             notify_all)                                                              *)

\* the simulator main() hands to main_loop
LoopStart == build(CHOOSE scn \in Scenarios : scn.name = "walled", <<new_default(4, 0)>>)

InitLoop ==
    /\ state = <<LoopStart, LoopStart>>
    /\ nb = [sim_pc |-> "lock", render_pc |-> "idle", mutex |-> "free", event |-> FALSE,
             drawn |-> None, lost |-> FALSE]
    /\ twin = <<>>
    /\ status = "ok"
    /\ lastOp = "new"
    /\ ticks = 0
    /\ edits = 0

Waiting == nb.sim_pc \in {"wait_timeout", "wait"}

\* let mut state = state.lock().unwrap()
SimLock ==
    /\ nb.sim_pc = "lock"
    /\ nb.mutex = "free"
    /\ nb' = [nb EXCEPT !.sim_pc = "update", !.mutex = "sim"]
    /\ lastOp' = "lock"
    /\ UNCHANGED <<state, twin, status, ticks, edits>>

\* prev.update(new); swap(prev, new); proceed.wait_timeout(state, ..) releases the mutex
SimUpdate ==
    /\ nb.sim_pc = "update"
    /\ status = "ok"
    /\ ticks < MaxTicks
    /\ \E oc \in OverflowChecks(state[1]) : \E res \in {step(state, oc)} :
          /\ state' = res.pair
          /\ status' = IF res.ok THEN "ok" ELSE "panic"
    /\ nb' = [nb EXCEPT !.sim_pc = "wait_timeout", !.mutex = "free"]
    /\ lastOp' = "update"
    /\ ticks' = ticks + 1
    /\ UNCHANGED <<twin, edits>>

\* producer_patience runs out
SimTimeout ==
    /\ nb.sim_pc = "wait_timeout"
    /\ nb' = [nb EXCEPT !.sim_pc = "timed_out"]
    /\ lastOp' = "timeout"
    /\ UNCHANGED <<state, twin, status, ticks, edits>>

\* a wait on a Condvar may return without a notify
SimSpurious ==
    /\ Waiting
    /\ nb' = [nb EXCEPT !.sim_pc = "woken"]
    /\ lastOp' = "spurious"
    /\ UNCHANGED <<state, twin, status, ticks, edits>>

\* the wait takes the mutex again and returns
SimReacquire ==
    /\ nb.sim_pc \in {"timed_out", "woken"}
    /\ nb.mutex = "free"
    /\ nb' = [nb EXCEPT !.mutex = "sim",
                        !.sim_pc = IF nb.sim_pc = "timed_out" THEN "send_event" ELSE "update"]
    /\ lastOp' = "reacquire"
    /\ UNCHANGED <<state, twin, status, ticks, edits>>

\* proxy.send_event(()); proceed.wait(new_state) releases the mutex
SimSendEvent ==
    /\ nb.sim_pc = "send_event"
    /\ nb' = [nb EXCEPT !.sim_pc = "wait", !.mutex = "free", !.event = TRUE]
    /\ lastOp' = "send_event"
    /\ UNCHANGED <<state, twin, status, ticks, edits>>

\* the closure runs with the threshold elapsed and try_lock succeeds
RenderTryLock ==
    /\ nb.render_pc = "idle"
    /\ nb.mutex = "free"
    /\ nb' = [nb EXCEPT !.render_pc = "draw", !.mutex = "render", !.event = FALSE]
    /\ lastOp' = "try_lock"
    /\ UNCHANGED <<state, twin, status, ticks, edits>>

\* the closure runs for the user event and does not draw: the threshold has not elapsed
\* or try_lock fails
RenderSkip ==
    /\ nb.render_pc = "idle"
    /\ nb.event
    /\ nb' = [nb EXCEPT !.event = FALSE]
    /\ lastOp' = "skip"
    /\ UNCHANGED <<state, twin, status, ticks, edits>>

\* draw_state(&state.1, &mut screen); drop(state)
RenderDraw ==
    /\ nb.render_pc = "draw"
    /\ nb' = [nb EXCEPT !.render_pc = "dropped", !.mutex = "free", !.drawn = state[2].seed]
    /\ lastOp' = "draw"
    /\ UNCHANGED <<state, twin, status, ticks, edits>>

\* proceed.notify_all(): wakes the simulation thread if it is waiting on proceed
RenderNotify ==
    /\ nb.render_pc = "dropped"
    /\ nb' = [nb EXCEPT !.render_pc = "idle",
                        !.sim_pc = IF Waiting THEN "woken" ELSE @,
                        !.lost = IF Waiting THEN @ ELSE TRUE]
    /\ lastOp' = "notify_all"
    /\ UNCHANGED <<state, twin, status, ticks, edits>>

NextLoop ==
    \/ SimLock \/ SimUpdate \/ SimTimeout \/ SimSpurious \/ SimReacquire \/ SimSendEvent
    \/ RenderTryLock \/ RenderSkip \/ RenderDraw \/ RenderNotify

SpecLoop == InitLoop /\ [][NextLoop]_vars

-----------------------------------------------------------------------------
(* The foraging scenario: a 5x5 board with Home in the middle and Food{100} on the left
   edge, one foraging ant on Home, ticked with buffer swap.  The explore weight of the
   ant is 0, so that the exploration hash has no part in its scores.  nb records the
   first tick at which the ant was seen on the food cell, seen there as Hauling{10} with
   Food{90} left, and seen foraging on Home again (None: not yet).                                             *)

ForageTicks == 50

\* the loop is followed for twice as many ticks as the scenario allows the ant
MaxForageTicks == 2 * ForageTicks

ForageHome == 12
ForageFood == 10

ForageStart ==
    [sim |-> set_cell(set_cell(new_grid(5, 5), ForageHome, Home), ForageFood, Food(100)),
     ants |-> <<new_default(ForageHome, 0)>>,
     seed |-> U64(1),
     config |-> [food_haul_amount |-> 10,
                 pheromone_decay_amount |-> 0,
                 seed_step |-> U64(1),
                 visual_range |-> new_visual_range(1)]]

InitForage ==
    /\ state = <<ForageStart, ForageStart>>
    /\ nb = [reached |-> None, hauling |-> None, returned |-> None]
    /\ twin = <<>>
    /\ status = "ok"
    /\ lastOp = "new"
    /\ ticks = 0
    /\ edits = 0

\* what the new current simulator s shows at tick t, added to the record
Seen(rec, s, t) ==
    LET ant == s.ants[1]
        reached == IF rec.reached = None /\ ant.position = ForageFood THEN t ELSE rec.reached
        hauling == IF rec.hauling = None /\ reached # None /\ ant.state = Hauling(10)
                      /\ ant.position = ForageFood /\ cell(s.sim, ForageFood) = Food(90)
                   THEN t ELSE rec.hauling
        returned == IF rec.returned = None /\ hauling # None /\ ant.state.tag = "Foraging"
                       /\ ant.position = ForageHome
                    THEN t ELSE rec.returned
    IN  [reached |-> reached, hauling |-> hauling, returned |-> returned]

\* one pass of the loop, in either build profile
TickForage ==
    /\ status = "ok"
    /\ ticks < MaxForageTicks
    /\ \E oc \in BOOLEAN : \E res \in {step(state, oc)} :
          /\ state' = res.pair
          /\ status' = IF res.ok THEN "ok" ELSE "panic"
          /\ nb' = IF res.ok THEN Seen(nb, res.pair[1], ticks + 1) ELSE nb
    /\ lastOp' = "update"
    /\ ticks' = ticks + 1
    /\ UNCHANGED <<twin, edits>>

NextForage == TickForage

SpecForage == InitForage /\ [][NextForage]_vars

-----------------------------------------------------------------------------
(* move_to_next2 on its own: one ant after another is moved on the board of a scenario
   with one set of ring buffers, as update_ants does within a tick.                     *)

SelectCenters(scn) == { 0, scn.width - 1, (scn.width * scn.height) \div 2,
                        scn.width * scn.height - 1 }

NoMove == [sim |-> new_grid(1, 1), seed |-> U64(0), weight |-> 0, debug |-> FALSE,
           centers |-> {}, rings |-> <<>>, ant |-> new_default(0, 0), chosen |-> None,
           ok |-> TRUE, called |-> FALSE]

InitSelect ==
    /\ \E scn \in Scenarios : \E e \in scn.weights : \E debug \in BOOLEAN :
          nb = [NoMove EXCEPT !.sim = set_cells(new_grid(scn.width, scn.height), scn.cells, 1),
                              !.seed = scn.seed, !.weight = e, !.debug = debug,
                              !.centers = SelectCenters(scn),
                              !.rings = buffers(new_visual_range(scn.range), scn.range).rings]
    /\ state = <<>>
    /\ twin = <<>>
    /\ status = "ok"
    /\ lastOp = "new"
    /\ ticks = 0
    /\ edits = 0

\* ant.move_to_next2(seed, &POINTS, sim, buffers) for an ant on p that came from l
CallMove ==
    /\ nb.ok
    /\ \E p \in nb.centers : \E l \in {p, (nb.sim.width * nb.sim.height) \div 2} :
       \E st \in {Foraging, Hauling(1)} :
       \E ant \in {[position |-> p, last_position |-> l, state |-> st,
                     explore_weight |-> nb.weight]} :
       \E res \in {move_to_next2(ant, nb.seed, nb.sim, nb.rings, nb.debug)} :
          nb' = [nb EXCEPT !.rings = res.rings, !.ant = ant, !.ok = res.ok,
                           !.chosen = IF res.ok THEN res.ant.position ELSE None,
                           !.called = TRUE]
    /\ UNCHANGED <<state, twin, status, lastOp, ticks, edits>>

NextSelect == CallMove

SpecSelect == InitSelect /\ [][NextSelect]_vars

-----------------------------------------------------------------------------
(* neighbors() on its own: one set of ring buffers, filled for one center after another,
   as update does for one ant after another and one tick after another.                 *)

NbDims == { <<3, 3>>, <<4, 3>>, <<3, 4>> }
NbRanges == { 1, 2 }
MaxCalls == 3

InitNb ==
    /\ \E d \in NbDims : \E range \in NbRanges :
          nb = [sim |-> new_grid(d[1], d[2]),
                rings |-> buffers(new_visual_range(range), range).rings,
                center |-> None,
                calls |-> 0,
                ok |-> TRUE]
    /\ state = <<>>
    /\ twin = <<>>
    /\ status = "ok"
    /\ lastOp = "new"
    /\ ticks = 0
    /\ edits = 0

CallNeighbors ==
    /\ nb.ok
    /\ nb.calls < MaxCalls
    /\ \E c \in Positions(nb.sim) : \E oc \in BOOLEAN :
          \E res \in {neighbors(nb.sim, c, nb.rings, oc)} :
              nb' = [nb EXCEPT !.rings = res.rings, !.center = c, !.ok = res.ok,
                               !.calls = @ + 1]
    /\ UNCHANGED <<state, twin, status, lastOp, ticks, edits>>

NextNb == CallNeighbors

SpecNb == InitNb /\ [][NextNb]_vars

-----------------------------------------------------------------------------
(* neighbors() and neighbors_unsafe() side by side, as in bench_neighbors: both are given
   the same grid, center and buffers; the buffers carry on with what neighbors wrote.   *)

InitNbUnsafe ==
    /\ \E d \in NbDims : \E range \in NbRanges :
          nb = [sim |-> new_grid(d[1], d[2]),
                rings |-> buffers(new_visual_range(range), range).rings,
                center |-> None,
                calls |-> 0,
                ok |-> TRUE,
                debug |-> FALSE,
                unsafe |-> [ok |-> TRUE, rings |-> <<>>]]
    /\ state = <<>>
    /\ twin = <<>>
    /\ status = "ok"
    /\ lastOp = "new"
    /\ ticks = 0
    /\ edits = 0

\* one call of each function on the same input, in a build with (debug) or without
\* overflow checks and debug assertions
CallBoth ==
    /\ nb.ok
    /\ nb.calls < MaxCalls
    /\ \E c \in Positions(nb.sim) : \E debug \in BOOLEAN :
          \E safe \in {neighbors(nb.sim, c, nb.rings, debug)} :
          \E fast \in {neighbors_unsafe(nb.sim, c, nb.rings, debug, debug)} :
              nb' = [nb EXCEPT !.rings = safe.rings, !.center = c, !.ok = safe.ok,
                               !.calls = @ + 1, !.debug = debug, !.unsafe = fast]
    /\ UNCHANGED <<state, twin, status, lastOp, ticks, edits>>

NextNbUnsafe == CallBoth

SpecNbUnsafe == InitNbUnsafe /\ [][NextNbUnsafe]_vars

-----------------------------------------------------------------------------
(* Vocabulary of the properties.  After a completed update and the swap,   *)
(* state[2] is the simulator update read (the source) and state[1] is the  *)
(* simulator it wrote (the destination).                                   *)

src == state[2]
dst == state[1]

Updated == lastOp = "update" /\ status = "ok"

AntIndices == 1..Len(src.ants)

abs(n) == IF n < 0 THEN -n ELSE n
max(a, b) == IF a >= b THEN a ELSE b

\* king-move distance between two positions of a grid
Chebyshev(sim, p, q) ==
    max(abs(decode(sim, p).x - decode(sim, q).x), abs(decode(sim, p).y - decode(sim, q).y))

SrcCell(p) == cell(src.sim, p)
DstCell(p) == cell(dst.sim, p)

TakesFood(a) == a.state.tag = "Foraging" /\ SrcCell(a.position).kind = "Food"
DropsFood(a) == a.state.tag = "Hauling" /\ SrcCell(a.position).kind = "Home"
Moves(a) == ~TakesFood(a) /\ ~DropsFood(a)

AntsAt(p) == { i \in AntIndices : src.ants[i].position = p }

\* a source cell after this tick's decay, stated from the configuration
Decayed(c) ==
    IF c.kind = "Path"
    THEN Path(max(0, c.pheromone_food - src.config.pheromone_decay_amount),
              max(0, c.pheromone_home - src.config.pheromone_decay_amount))
    ELSE c

\* the cell at p in the destination when the trail pass begins: the decayed source cell,
\* or what a forager standing on it left of a Food cell
AtTrailTime(p) ==
    LET c == SrcCell(p)
    IN  IF c.kind = "Food" /\ \E i \in AntsAt(p) : src.ants[i].state.tag = "Foraging"
        THEN (IF c.amount > src.config.food_haul_amount
              THEN Food(c.amount - src.config.food_haul_amount) ELSE Path(0, 0))
        ELSE Decayed(c)

\* the eight cells around p are all on the grid, one is Path and seven are Blocker
WalledInExcept(p, q) ==
    LET around == { n \in Positions(src.sim) : Chebyshev(src.sim, p, n) = 1 }
    IN  /\ Cardinality(around) = 8
        /\ q \in around
        /\ SrcCell(q).kind = "Path"
        /\ \A n \in around \ {q} : SrcCell(n).kind = "Blocker"

-----------------------------------------------------------------------------
(* C2: the movement step never selects a Blocker cell as destination: no ant that took
   the movement branch stands, after the tick, on a cell that is Blocker in the source
   grid, and an ant walled in by Blockers except for one Path cell moves into that cell. *)
C2_NeverMovesOntoBlocker ==
    Updated =>
        \A i \in AntIndices :
            Moves(src.ants[i]) =>
                /\ SrcCell(dst.ants[i].position).kind # "Blocker"
                /\ \A q \in Positions(src.sim) :
                      WalledInExcept(src.ants[i].position, q) => dst.ants[i].position = q

(* C3: every ant that takes the movement branch ends on an in-bounds cell at Chebyshev
   distance exactly 1 from where it stood, with last_position equal to where it stood. *)
C3_MovesOneStep ==
    Updated =>
        \A i \in AntIndices :
            Moves(src.ants[i]) =>
                /\ dst.ants[i].position \in Positions(src.sim)
                /\ Chebyshev(src.sim, src.ants[i].position, dst.ants[i].position) = 1
                /\ dst.ants[i].last_position = src.ants[i].position

(* C4: a Foraging ant on a Food{amount} cell of the source grid becomes
   Hauling{min(amount, food_haul_amount)} and stands still: position unchanged,
   last_position equal to position. *)
C4_ForagerOnFoodHauls ==
    Updated =>
        \A i \in AntIndices :
            TakesFood(src.ants[i]) =>
                dst.ants[i] =
                    [position |-> src.ants[i].position,
                     last_position |-> src.ants[i].position,
                     state |-> Hauling(min(SrcCell(src.ants[i].position).amount,
                                           src.config.food_haul_amount)),
                     explore_weight |-> src.ants[i].explore_weight]

\* a forager took the last of a Food cell holding less than the haul amount
C4_Witness ==
    /\ Updated
    /\ \E i \in AntIndices :
          /\ TakesFood(src.ants[i])
          /\ SrcCell(src.ants[i].position).amount < src.config.food_haul_amount
          /\ dst.ants[i].state.tag = "Hauling"

(* C5, as claimed: when a Foraging ant stands on Food{amount}, the destination cell is
   Food{amount - food_haul_amount} if amount > food_haul_amount and otherwise an empty
   Path cell, both pheromone fields 0. *)
C5_FoodCellAsClaimed ==
    Updated =>
        \A i \in AntIndices :
            TakesFood(src.ants[i]) =>
                LET c == SrcCell(src.ants[i].position)
                IN  DstCell(src.ants[i].position) =
                        IF c.amount > src.config.food_haul_amount
                        THEN Food(c.amount - src.config.food_haul_amount)
                        ELSE Path(0, 0)

(* C5, amended: when a Foraging ant stands on Food{amount}, the destination cell is
   Food{amount - food_haul_amount} if amount > food_haul_amount; otherwise it is a Path
   cell that already carries this tick's trail deposit: home-pheromone 65534 (from the
   forager itself) and food-pheromone 0, or 65534 if a Hauling ant stands there too. *)
C5_FoodCellWithTrail ==
    Updated =>
        \A i \in AntIndices :
            TakesFood(src.ants[i]) =>
                LET p == src.ants[i].position
                    c == SrcCell(p)
                IN  DstCell(p) =
                        IF c.amount > src.config.food_haul_amount
                        THEN Food(c.amount - src.config.food_haul_amount)
                        ELSE Path(IF \E j \in AntsAt(p) : src.ants[j].state.tag = "Hauling"
                                  THEN 65534 ELSE 0,
                                  65534)

\* a forager emptied a Food cell
C5_Witness ==
    /\ Updated
    /\ \E i \in AntIndices :
          /\ TakesFood(src.ants[i])
          /\ SrcCell(src.ants[i].position).amount <= src.config.food_haul_amount
          /\ DstCell(src.ants[i].position).kind = "Path"

\* the source simulator without its ant i
WithoutAnt(self, i) ==
    [self EXCEPT !.ants = SubSeq(@, 1, i - 1) \o SubSeq(@, i + 1, Len(@))]

(* C6: a Hauling ant on a Home cell becomes Foraging and stands still; the Home cell is
   still Home in the destination, and the ant changes nothing else: the destination grid
   is the grid the same update writes when that ant is absent. *)
C6_HaulerOnHomeForages ==
    Updated =>
        \A i \in AntIndices :
            DropsFood(src.ants[i]) =>
                /\ dst.ants[i] = [src.ants[i] EXCEPT !.state = Foraging,
                                                     !.last_position = src.ants[i].position]
                /\ DstCell(src.ants[i].position) = Home
                /\ dst.sim = update(WithoutAnt(src, i), WithoutAnt(src, i), FALSE).into.sim

\* a hauler that had walked onto Home dropped its load
C6_Witness ==
    /\ Updated
    /\ \E i \in AntIndices :
          /\ DropsFood(src.ants[i])
          /\ src.ants[i].last_position # src.ants[i].position
          /\ dst.ants[i].state = Foraging

(* C7: at every position on which no source ant stands, a Path{f, h} source cell becomes
   Path{max(0, f - d), max(0, h - d)} with d = pheromone_decay_amount, and a Blocker,
   Home or Food source cell is copied unchanged. *)
C7_DecayWhereNoAntStands ==
    Updated =>
        \A p \in Positions(src.sim) :
            AntsAt(p) = {} => DstCell(p) = Decayed(SrcCell(p))

\* a pheromone smaller than the decay amount was decayed next to one that was larger
C7_Witness ==
    /\ Updated
    /\ \E p \in Positions(src.sim) :
          /\ AntsAt(p) = {}
          /\ SrcCell(p).kind = "Path"
          /\ 0 < SrcCell(p).pheromone_home
          /\ SrcCell(p).pheromone_home < src.config.pheromone_decay_amount
          /\ SrcCell(p).pheromone_food > src.config.pheromone_decay_amount
          /\ DstCell(p).kind = "Path"

\* the channel an ant in state st deposits on, and the other one
Deposited(c, st) == IF st.tag = "Foraging" THEN c.pheromone_home ELSE c.pheromone_food
NotDeposited(c, st) == IF st.tag = "Foraging" THEN c.pheromone_food ELSE c.pheromone_home

\* the deposit is made where the ant stood: a cell an ant moved onto, on which no source
\* ant stood, got no deposit
NoDepositAtNewPosition ==
    \A i \in AntIndices :
        AntsAt(dst.ants[i].position) = {} =>
            DstCell(dst.ants[i].position) = Decayed(SrcCell(dst.ants[i].position))

(* C8, as claimed: for every source ant standing on a cell that is Path at trail time,
   the cell at the ant's old position has the channel of the ant's old state at 65534
   and the other channel at its decayed value; the deposit is at the old position. *)
C8_TrailAsClaimed ==
    Updated =>
        /\ NoDepositAtNewPosition
        /\ \A i \in AntIndices :
              LET p == src.ants[i].position
                  before == AtTrailTime(p)
                  after == DstCell(p)
              IN  before.kind = "Path" =>
                      /\ after.kind = "Path"
                      /\ Deposited(after, src.ants[i].state) = 65534
                      /\ NotDeposited(after, src.ants[i].state)
                             = NotDeposited(before, src.ants[i].state)

(* C8, amended: for every source ant standing on a cell that is Path at trail time, the
   cell at the ant's old position has the channel of the ant's old state at 65534; the
   other channel keeps its decayed value unless a source ant in the other state stands on
   the same cell, and is then 65534 as well; the deposit is at the old position. *)
C8_TrailPerState ==
    Updated =>
        /\ NoDepositAtNewPosition
        /\ \A i \in AntIndices :
              LET p == src.ants[i].position
                  before == AtTrailTime(p)
                  after == DstCell(p)
              IN  before.kind = "Path" =>
                      /\ after.kind = "Path"
                      /\ Deposited(after, src.ants[i].state) = 65534
                      /\ NotDeposited(after, src.ants[i].state)
                             = IF \E j \in AntsAt(p) :
                                      src.ants[j].state.tag # src.ants[i].state.tag
                               THEN 65534
                               ELSE NotDeposited(before, src.ants[i].state)

\* an ant left a Path cell carrying pheromone on the other channel, and moved away
C8_Witness ==
    /\ Updated
    /\ \E i \in AntIndices :
          LET p == src.ants[i].position
          IN  /\ SrcCell(p).kind = "Path"
              /\ NotDeposited(Decayed(SrcCell(p)), src.ants[i].state) > 0
              /\ dst.ants[i].position # p
              /\ Deposited(DstCell(p), src.ants[i].state) = 65534

\* the packed cell is one of the four shapes of to_cell
ValidPacked(c) ==
    \/ c.p2 = U16_MAX /\ c.p1 \in 0..U16_MAX
    \/ c.p1 = U16_MAX /\ c.p2 \in {0, 1}
    \/ c.p1 \in 0..(U16_MAX - 1) /\ c.p2 \in 0..(U16_MAX - 1)

(* C9: in every reachable grid each cell has one of the four packed shapes, so a Path
   cell has both pheromone fields in 0..65534; across an update a Path cell stays a Path
   cell and each of its fields is either its old value decayed, saturating at 0, or the
   deposit 65534: no field wraps and none reaches the sentinel 65535. *)
C9_PathFieldsBelowSentinel ==
    /\ \A k \in {1, 2} : \A p \in Positions(state[k].sim) :
          ValidPacked(state[k].sim.contains[p])
    /\ Updated =>
          \A p \in Positions(src.sim) :
              SrcCell(p).kind = "Path" =>
                  /\ DstCell(p).kind = "Path"
                  /\ DstCell(p).pheromone_food
                        \in {Decayed(SrcCell(p)).pheromone_food, 65534}
                  /\ DstCell(p).pheromone_home
                        \in {Decayed(SrcCell(p)).pheromone_home, 65534}

\* after a set_cell and an update, a cell at the top of the range decayed to 0 beside a deposit
C9_Witness ==
    /\ Updated
    /\ edits > 0
    /\ \E p \in Positions(src.sim) :
          /\ SrcCell(p).kind = "Path"
          /\ SrcCell(p).pheromone_food = 65534
          /\ DstCell(p).kind = "Path"
          /\ DstCell(p).pheromone_food = 0
    /\ \E p \in Positions(dst.sim) :
          DstCell(p).kind = "Path" /\ DstCell(p).pheromone_home = 65534

-----------------------------------------------------------------------------
\* what the claim compares of two simulators
Observed(s) == [sim |-> s.sim.contains, ants |-> s.ants, seed |-> s.seed]

(* C1: two simulators built identically and each advanced by update with buffer swap are
   equal after every tick: same grid cells, same ants (position, last position, state),
   same seed; and neither aborts where the other completes. *)
C1_TwinsStayEqual ==
    /\ status # "diverged"
    /\ status = "ok" => Observed(twin[1]) = Observed(state[1])

\* two ticks were made, an ant moved in the last one, and the second simulator wrote into
\* a destination that held something else
C1_Witness ==
    /\ Updated
    /\ ticks >= 2
    /\ \E i \in AntIndices : dst.ants[i].position # src.ants[i].position
    /\ Observed(twin[1]) = Observed(state[1])

-----------------------------------------------------------------------------
\* the cell of ring r that slot i (0-based) stands for, as an offset from the center:
\* the top row left to right, the right column downwards, the bottom row right to left,
\* the left column upwards
SlotOffset(r, i) ==
    IF i <= 2 * r THEN <<i - r, r>>
    ELSE IF i < 4 * r THEN <<r, 3 * r - i>>
    ELSE IF i <= 6 * r THEN <<5 * r - i, 0 - r>>
    ELSE <<0 - r, i - 7 * r>>

\* Some(position) when the cell slot i of ring r stands for is inside the grid, else None
SlotCell(sim, center, r, i) ==
    LET x == decode(sim, center).x + SlotOffset(r, i)[1]
        y == decode(sim, center).y + SlotOffset(r, i)[2]
    IN  IF 0 <= x /\ x < sim.width /\ 0 <= y /\ y < sim.height
        THEN y * sim.width + x ELSE None

(* C10: after neighbors returns, every slot of every ring holds Some(p) exactly when the
   cell at the slot's fixed offset from the center is inside the grid, p encoding that
   cell, and None otherwise, whatever the buffers held before the call. *)
C10_SlotsMatchTheGrid ==
    (nb.center # None /\ nb.ok) =>
        \A r \in 1..Len(nb.rings) : \A i \in 0..(8 * r - 1) :
            nb.rings[r][i + 1] = SlotCell(nb.sim, nb.center, r, i)

-----------------------------------------------------------------------------
\* the harness made its first call, on the all-None buffers it starts with,
\* on a grid at least 2R+1 wide and high
FirstCallOnRoomyGrid ==
    /\ nb.calls = 1
    /\ nb.sim.width >= 2 * Len(nb.rings) + 1
    /\ nb.sim.height >= 2 * Len(nb.rings) + 1

\* the cells of the grid at king-move distance exactly r from the center
RingCells(sim, center, r) == { p \in Positions(sim) : Chebyshev(sim, center, p) = r }

(* C11: on every grid, square or not, at least 2R+1 wide and high, neighbors called on
   all-None buffers for an in-bounds center completes and leaves every ring r <= R with
   exactly 8r slots of which as many are Some as there are in-bounds cells at Chebyshev
   distance r from the center; when the whole ring is inside the grid every slot is Some. *)
C11_SomeCountIsRingSize ==
    FirstCallOnRoomyGrid =>
        /\ nb.ok
        /\ \A r \in 1..Len(nb.rings) :
              /\ Len(nb.rings[r]) = 8 * r
              /\ Cardinality({ i \in 1..Len(nb.rings[r]) : nb.rings[r][i] # None })
                    = Cardinality(RingCells(nb.sim, nb.center, r))

-----------------------------------------------------------------------------
\* the harness made its first call, on all-None buffers, on a square grid, and it completed
FirstCallOnSquareGrid == nb.calls = 1 /\ nb.ok /\ nb.sim.width = nb.sim.height

\* the offset of slot i (0-based) of ring r when slot 0 is directly north of the center
\* (same x, r rows up) and the slots go clockwise: N .. NE corner, down the east side,
\* back along the south side, up the west side, NW corner .. N
NorthFirstOffset(r, i) ==
    IF i <= r THEN <<i, r>>
    ELSE IF i <= 3 * r THEN <<r, 2 * r - i>>
    ELSE IF i <= 5 * r THEN <<4 * r - i, 0 - r>>
    ELSE IF i <= 7 * r THEN <<0 - r, i - 6 * r>>
    ELSE <<i - 8 * r, r>>

\* Some(position) of the cell at offset <<dx, up * dy>> from the center, None off the grid;
\* up is 1 when north is the direction of growing y and -1 when it is that of shrinking y
CellAtOffset(sim, center, off, up) ==
    LET x == decode(sim, center).x + off[1]
        y == decode(sim, center).y + up * off[2]
    IN  IF 0 <= x /\ x < sim.width /\ 0 <= y /\ y < sim.height
        THEN y * sim.width + x ELSE None

(* C12, as claimed: slot 0 of ring r is the cell directly north of the center (same x, r
   rows away) and the following slots go clockwise round the ring, so that ring 1 reads
   N, NE, E, SE, S, SW, W, NW; north is taken as either direction of the y axis. *)
C12_SlotZeroIsNorth ==
    FirstCallOnSquareGrid =>
        \E up \in {1, -1} :
            \A r \in 1..Len(nb.rings) : \A i \in 0..(8 * r - 1) :
                nb.rings[r][i + 1] = CellAtOffset(nb.sim, nb.center, NorthFirstOffset(r, i), up)

(* C12, amended: slot 0 of ring r is the corner cell (x - r, y + r); the slots then run
   along the row y + r with x growing to the corner (x + r, y + r), down the column x + r,
   back along the row y - r and up the column x - r.  With y + 1 as north, ring 1 reads
   NW, N, NE, E, SE, S, SW, W: the cell with the center's x is slot r, not slot 0. *)
C12_SlotZeroIsCorner ==
    FirstCallOnSquareGrid =>
        \A r \in 1..Len(nb.rings) : \A i \in 0..(8 * r - 1) :
            nb.rings[r][i + 1] = CellAtOffset(nb.sim, nb.center, SlotOffset(r, i), 1)

\* a first call for a center whose ring 1 is wholly inside a square grid: slot 0 holds
\* the cell one column to the left in the next row, slot 1 the cell with the center's x
C12_Witness ==
    /\ FirstCallOnSquareGrid
    /\ \A i \in 1..8 : nb.rings[1][i] # None
    /\ nb.rings[1][1] = nb.center + nb.sim.width - 1
    /\ nb.rings[1][2] = nb.center + nb.sim.width

-----------------------------------------------------------------------------
(* C13: on every grid, square or not, for every in-bounds center and every range,
   neighbors_unsafe completes with every assert and debug_assert holding and leaves every
   ring slot with the value neighbors leaves for the same input and the same buffers. *)
C13_UnsafeAgreesWithSafe ==
    (nb.calls > 0 /\ nb.ok) =>
        /\ nb.unsafe.ok
        /\ nb.unsafe.rings = nb.rings

-----------------------------------------------------------------------------
\* vocabulary for the calls of SpecInto: the arguments of the last call as they were
\* before it, and the destination as the call left it
CalledInto == lastOp = "update" /\ twin # <<>>
SelfBefore == twin[1]
IntoBefore == twin[2]
SelfAfter == IF status = "ok" THEN state[2] ELSE state[1]
IntoAfter == IF status = "ok" THEN state[1] ELSE state[2]

(* C14: update called with a destination whose grid differs from the source grid in width
   or height aborts, and the destination is then exactly as it was before the call: grid,
   ants, seed (and configuration) unmodified; the source is unmodified too. *)
C14_IncompatibleGridsAbortUntouched ==
    (/\ CalledInto
     /\ \/ IntoBefore.sim.width # SelfBefore.sim.width
        \/ IntoBefore.sim.height # SelfBefore.sim.height) =>
        /\ status = "panic"
        /\ IntoAfter = IntoBefore
        /\ SelfAfter = SelfBefore

\* update was called with a destination of the same number of cells in another shape,
\* and aborted
C14_Witness ==
    /\ CalledInto
    /\ status = "panic"
    /\ IntoBefore.sim.width # SelfBefore.sim.width
    /\ cell_count(IntoBefore.sim) = cell_count(SelfBefore.sim)
    /\ IntoAfter = IntoBefore

\* a clone of the source of the last call that carries the scratch rings of destination d
CloneFor(d) == [SelfBefore EXCEPT !.config = d.config]

\* the grids of the last call passed update's compatibility assertion
CompatibleCall ==
    /\ CalledInto
    /\ IntoBefore.sim.width = SelfBefore.sim.width
    /\ IntoBefore.sim.height = SelfBefore.sim.height
    /\ cell_count(IntoBefore.sim) = cell_count(SelfBefore.sim)

(* C15: after update with compatible grids the destination has exactly as many ants as
   the source, and when the call completed they are the ants the state machine makes of
   the source's ants (the ants a call into a clone of the source produces, with the
   destination's scratch rings), whatever the destination's ant list held before, a list
   of another length included. *)
C15_AntListReplacedWholesale ==
    CompatibleCall =>
        /\ Len(IntoAfter.ants) = Len(SelfBefore.ants)
        /\ status = "ok" =>
              \E oc \in BOOLEAN : \E ref \in {update(SelfBefore, CloneFor(IntoBefore), oc)} :
                  ref.ok /\ IntoAfter.ants = ref.into.ants

(* C16: a completed update leaves the source as it was, and the destination's grid, ants
   and seed are those of a call with the same source and configuration into a clone of
   the source: what the destination's grid, ants and seed held before has no effect. *)
C16_PriorDestinationHasNoEffect ==
    (CalledInto /\ status = "ok") =>
        /\ SelfAfter = SelfBefore
        /\ \E oc \in BOOLEAN : \E ref \in {update(SelfBefore, CloneFor(IntoBefore), oc)} :
              /\ ref.ok
              /\ IntoAfter.sim = ref.into.sim
              /\ IntoAfter.ants = ref.into.ants
              /\ IntoAfter.seed = ref.into.seed

\* a call completed into a destination whose grid, ants and seed all differed from the
\* source's, and it rewrote the destination's grid
C16_Witness ==
    /\ CalledInto
    /\ status = "ok"
    /\ IntoBefore.sim # SelfBefore.sim
    /\ IntoBefore.ants # SelfBefore.ants
    /\ IntoBefore.seed # SelfBefore.seed
    /\ IntoAfter.sim # IntoBefore.sim
    /\ SelfAfter = SelfBefore

-----------------------------------------------------------------------------
\* The residue of a u64 modulo 2^64 that lies nearest to zero, for values within 2^16 of
\* zero on either side: u64::MAX is -1.
NearZero(v) ==
    IF v[2] = 0 /\ v[3] = 0 /\ v[4] = 0 THEN v[1]
    ELSE IF v[2] = U16_MAX /\ v[3] = U16_MAX /\ v[4] = U16_MAX THEN v[1] - LimbBase
    ELSE None - LimbBase

\* the scenario the running simulator was built from
BuiltFrom(scn) ==
    /\ scn.pheromone_decay_amount = state[1].config.pheromone_decay_amount
    /\ scn.food_haul_amount = state[1].config.food_haul_amount
    /\ scn.seed_step = state[1].config.seed_step

(* C17: after a completed update the destination seed is (source seed + seed_step)
   mod 2^64, and after k completed ticks with buffer swap the seed is
   (seed0 + k * seed_step) mod 2^64; the sum wraps past u64::MAX to zero. *)
C17_SeedAdvancesByStep ==
    /\ Updated =>
          NearZero(dst.seed) = NearZero(src.seed) + NearZero(src.config.seed_step)
    /\ status = "ok" =>
          \A scn \in Scenarios :
              BuiltFrom(scn) =>
                  NearZero(state[1].seed) = NearZero(scn.seed) + ticks * NearZero(scn.seed_step)

\* an update of a simulator whose seed was u64::MAX completed, and the seed wrapped to 0
C17_Witness ==
    /\ Updated
    /\ src.seed = U64_MAX
    /\ dst.seed = U64(0)

\* seed + i exceeds u64::MAX, for seeds within 2^16 of it
SeedPlusIndexOverflows(seed, i) == NearZero(seed) < 0 /\ NearZero(seed) + i >= 0

(* C18: for every source seed, seeds within the ant count of u64::MAX included, and every
   ant index i, update gets through the per-ant seed computation seed + i: no update
   aborts while an ant that is to move has an index that takes the seed past u64::MAX. *)
C18_SeedPlusIndexNeverAborts ==
    (lastOp = "update" /\ status = "panic") =>
        ~ \E i \in 1..Len(state[1].ants) :
              /\ SeedPlusIndexOverflows(state[1].seed, i - 1)
              /\ LET s == state[1]
                     ant == s.ants[i]
                     on == cell(s.sim, ant.position)
                 IN  ~ (ant.state.tag = "Foraging" /\ on.kind = "Food")
                     /\ ~ (ant.state.tag = "Hauling" /\ on.kind = "Home")

-----------------------------------------------------------------------------
(* C19: every simulator the save loader accepts can be advanced by update against a clone
   of itself, tick after tick, without a fatal assertion, a failed unwrap or an index out
   of range: once a file is loaded, no update aborts. *)
C19_AcceptedSavesNeverAbort == status # "panic"

-----------------------------------------------------------------------------
(* C20: on the grid of width w and height h, encode({x, y}) is a position exactly when
   x < w and y < h and None otherwise; decoding an encoded in-bounds coordinate gives the
   coordinate back; encoding a decoded position of the grid gives the position back; and
   no other in-bounds coordinate encodes to the same position. *)
C20_EncodeDecodeRoundTrip ==
    /\ nb.op = "encode" =>
          /\ nb.position # None <=> (nb.x < nb.sim.width /\ nb.y < nb.sim.height)
          /\ nb.position # None =>
                /\ nb.decoded = [x |-> nb.x, y |-> nb.y]
                /\ \A x \in 0..(nb.sim.width - 1) : \A y \in 0..(nb.sim.height - 1) :
                      encode(nb.sim, x, y) = nb.position => (x = nb.x /\ y = nb.y)
    /\ nb.op = "decode" => nb.reencoded = nb.position

\* a coordinate whose x is not below the height was encoded on a wide grid and decoded
\* back to itself
C20_Witness ==
    /\ nb.op = "encode"
    /\ nb.x >= nb.sim.height
    /\ nb.y > 0
    /\ nb.position # None
    /\ nb.decoded = [x |-> nb.x, y |-> nb.y]

-----------------------------------------------------------------------------
(* C21: for every cell of the four variants with valid fields, unpacking the packed cell
   gives the cell back (and the debug assertion of to_cell holds), and no other cell
   value packs to the same (p1, p2). *)
C21_PackUnpackRoundTrip ==
    nb.op = "pack" =>
        /\ nb.unpacked = nb.cell
        /\ nb.asserts
        /\ \A other \in CellValues : from_cell(other) = nb.packed => other = nb.cell

\* Food with the amount 65535, whose packed form holds the sentinel in both fields, was
\* packed and unpacked to itself
C21_Witness ==
    /\ nb.op = "pack"
    /\ nb.cell = Food(U16_MAX)
    /\ nb.packed = [p1 |-> U16_MAX, p2 |-> U16_MAX]
    /\ nb.unpacked = nb.cell

(* C30: for every packed cell of the four variants and every decay amount, the packed
   decrease equals the packed form of the generic decay of the unpacked cell: both fields
   of a Path lose the amount, saturating at 0, and Blocker, Home and Food cells (Food
   with amount 65535 among them) come out as they went in; and on whole grids
   decay_pheromones_on writes the destination that decay_pheromones writes. *)
C30_PackedDecayMatchesGeneric ==
    /\ nb.op = "decay" =>
          /\ nb.fast = nb.generic
          /\ nb.cell.kind # "Path" => nb.fast = nb.packed
          /\ nb.cell.kind = "Path" =>
                /\ nb.fast.p1 = (IF nb.packed.p1 >= nb.amount THEN nb.packed.p1 - nb.amount ELSE 0)
                /\ nb.fast.p2 = (IF nb.packed.p2 >= nb.amount THEN nb.packed.p2 - nb.amount ELSE 0)
    /\ nb.op = "decay_grid" =>
          /\ nb.asserts
          /\ nb.on_fast = nb.on_generic

\* a Blocker, whose p1 holds the sentinel and whose p2 does not, went through a decay by
\* a positive amount unchanged
C30_Witness ==
    /\ nb.op = "decay"
    /\ nb.cell = Blocker
    /\ nb.amount > 0
    /\ nb.fast = nb.packed
    /\ nb.fast = nb.generic

-----------------------------------------------------------------------------
(* C22: AntSimVecImpl::new never panics; it returns DimensionZero exactly when a
   dimension is 0, otherwise DimensionTooLarge exactly when width * height exceeds
   isize::MAX (an overflow of usize included), otherwise OutOfMemory or a grid, and a grid
   whenever the allocation is granted and fits; the grid has exactly width * height
   cells, all of them Path{0, 0}. *)
C22_NewReportsAndNeverPanics ==
    nb.op = "new" =>
        LET zero == nb.width = 0 \/ nb.height = 0
            large == nb.width * nb.height > ISIZE_MAX
        IN  /\ ~nb.result.panicked
            /\ nb.result.tag = "DimensionZero" <=> zero
            /\ nb.result.tag = "DimensionTooLarge" <=> (~zero /\ large)
            /\ (~zero /\ ~large) => nb.result.tag \in {"Ok", "OutOfMemory"}
            /\ (~zero /\ nb.alloc /\ nb.width * nb.height * CellBytes <= ISIZE_MAX) =>
                  nb.result.tag = "Ok"
            /\ nb.result.tag = "Ok" =>
                  /\ nb.result.grid.width = nb.width
                  /\ nb.result.grid.height = nb.height
                  /\ DOMAIN nb.result.grid.contains = 0..(nb.width * nb.height - 1)
                  /\ \A p \in DOMAIN nb.result.grid.contains :
                        to_cell(nb.result.grid.contains[p]) = Path(0, 0)

\* the product of the dimensions was exactly usize::MAX + 1, which wraps to 0, and the
\* call reported DimensionTooLarge
C22_Witness ==
    /\ nb.op = "new"
    /\ nb.width * nb.height = USIZE_MAX + 1
    /\ nb.result.tag = "DimensionTooLarge"
    /\ ~nb.result.panicked

-----------------------------------------------------------------------------
\* what is compared of the configuration: the parameters, not the scratch rings
ConfigParameters(s) ==
    [food_haul_amount |-> s.config.food_haul_amount,
     pheromone_decay_amount |-> s.config.pheromone_decay_amount,
     seed_step |-> s.config.seed_step,
     range |-> s.config.visual_range.range]

(* C23: a simulator that is saved and loaded again onto a grid of the same dimensions is
   accepted and has the same cell at every position, the same ants, the same seed and
   the same configuration parameters as the one that was saved. *)
C23_SaveLoadRoundTrip ==
    lastOp = "reload" =>
        /\ status = "ok"
        /\ state[1].sim = twin[1].sim
        /\ state[1].ants = twin[1].ants
        /\ state[1].seed = twin[1].seed
        /\ ConfigParameters(state[1]) = ConfigParameters(twin[1])

-----------------------------------------------------------------------------
\* the positions a save file names: of its ants, their last positions, and of its cells
NamedPositions(data) ==
    { data.ants[i].position : i \in 1..Len(data.ants) }
    \cup { data.ants[i].last_position : i \in 1..Len(data.ants) }
    \cup { data.board.blockers[i] : i \in 1..Len(data.board.blockers) }
    \cup { data.board.homes[i] : i \in 1..Len(data.board.homes) }
    \cup { data.board.foods[i][1] : i \in 1..Len(data.board.foods) }
    \cup { data.board.paths_with_pheromones[i][1] :
             i \in 1..Len(data.board.paths_with_pheromones) }

OffBoard(data) ==
    \E p \in NamedPositions(data) :
        p >= data.env.dimensions.width * data.env.dimensions.height

SentinelPheromone(data) ==
    \E i \in 1..Len(data.board.paths_with_pheromones) :
        \/ data.board.paths_with_pheromones[i][2].p_f = 65535
        \/ data.board.paths_with_pheromones[i][2].p_h = 65535

(* C24: decode_save returns InvalidData, neither InvalidFormat nor Ok, for every input
   that deserialises and names a position off the board, holds a path pheromone of 65535
   or has a visual range above 20; InvalidFormat is returned only for input that does
   not deserialise. *)
C24_BadDataIsInvalidData ==
    nb.op = "decode_save" =>
        /\ (/\ nb.input.kind = "data"
            /\ \/ OffBoard(nb.input.data)
               \/ SentinelPheromone(nb.input.data)
               \/ nb.input.data.env.ant_visual_range > 20) => nb.tag = "InvalidData"
        /\ nb.tag = "InvalidFormat" => nb.input.kind = "malformed"

\* a file whose only fault is a path pheromone of 65535 was answered with InvalidData
C24_Witness ==
    /\ nb.op = "decode_save"
    /\ nb.input.kind = "data"
    /\ SentinelPheromone(nb.input.data)
    /\ ~OffBoard(nb.input.data)
    /\ nb.input.data.env.ant_visual_range <= 20
    /\ nb.input.data.env.dimensions.width > 0
    /\ nb.tag = "InvalidData"

-----------------------------------------------------------------------------
(* C25: in the windowed front end update and draw_state never overlap: the closure draws
   only while it holds the mutex and the simulation thread holds the mutex for the whole
   of update and swap; whenever the closure holds the mutex the simulation thread is
   waiting on the condition variable; and no notify_all of the closure is lost. *)
C25_NoOverlapNoLostNotify ==
    /\ nb.render_pc = "draw" => nb.mutex = "render"
    /\ nb.sim_pc \in {"update", "send_event"} => nb.mutex = "sim"
    /\ ~(nb.render_pc = "draw" /\ nb.sim_pc = "update")
    /\ nb.mutex = "render" => Waiting
    /\ ~nb.lost

-----------------------------------------------------------------------------
(* C26: in the foraging scenario no tick aborts, and by tick 50 the ant has reached the
   food cell (0,2), has then become Hauling{10} there leaving Food{90}, and has after
   that come back to Home (2,2) and become Foraging again. *)
C26_ForagesAndReturns ==
    /\ status = "ok"
    /\ nb.reached # None => nb.reached <= ticks
    /\ ticks >= ForageTicks =>
          /\ nb.reached # None /\ nb.reached <= ForageTicks
          /\ nb.hauling # None /\ nb.reached < nb.hauling /\ nb.hauling <= ForageTicks
          /\ nb.returned # None /\ nb.hauling < nb.returned /\ nb.returned <= ForageTicks

\* the ant is back on Home, foraging, in the tick in which it was first seen there after
\* hauling
C26_Witness ==
    /\ status = "ok"
    /\ nb.returned = ticks
    /\ state[1].ants[1].position = ForageHome
    /\ state[1].ants[1].state = Foraging
    /\ cell(state[1].sim, ForageFood) = Food(90)

-----------------------------------------------------------------------------
\* the ring-1 slots (0-based) that hold a position after the call's neighbors()
SomeSlots == { n \in 0..7 : nb.rings[1][n + 1] # None }

\* the final score of a slot in the call
SlotScore(n) ==
    final_score(nb.ant, nb.seed, nb.sim, nb.rings, n,
                last_pos_point(nb.rings, nb.ant.last_position))

\* slot k has the greatest final score of the slots that hold a position, and is the
\* first of them with that score
FirstGreatest(k) ==
    /\ k \in SomeSlots
    /\ \A j \in SomeSlots : SlotScore(j) <= SlotScore(k)
    /\ \A j \in SomeSlots : j < k => SlotScore(j) < SlotScore(k)

(* C27: a call of move_to_next2 that returns has moved the ant to the position of the
   ring-1 slot with the greatest final score among the slots that hold a position, the
   lowest such slot when several share that score; None slots, slot 0 included, are not
   compared. *)
C27_SelectsFirstGreatest ==
    (nb.called /\ nb.ok) =>
        \E k \in SomeSlots : FirstGreatest(k) /\ nb.chosen = nb.rings[1][k + 1]

\* slot 0 is None, two later slots that hold different positions share the greatest
\* score, and the ant is on the position of the first of them
C27_Witness ==
    /\ nb.called /\ nb.ok
    /\ nb.rings[1][1] = None
    /\ \E k \in SomeSlots : \E j \in SomeSlots :
          /\ FirstGreatest(k) /\ k < j
          /\ SlotScore(j) = SlotScore(k)
          /\ nb.rings[1][j + 1] # nb.rings[1][k + 1]
          /\ nb.chosen = nb.rings[1][k + 1]

-----------------------------------------------------------------------------
\* the last step was a tick that returned: state[2] is its source, state[1] its result
Ticked == lastOp = "update" /\ status = "ok" /\ Len(state) = 2

\* the kind of the cell at p before and after the tick
KindBefore(p) == cell(state[2].sim, p).kind
KindAfter(p) == cell(state[1].sim, p).kind

(* C28: in a tick the kind of a cell either stays as it is or goes from Food to Path, so
   Blocker and Home cells stay, no cell becomes Blocker, Home or Food, and the amount of
   a cell that is Food before and after does not grow. *)
C28_KindsOnlyFoodToPath ==
    Ticked =>
        \A p \in Positions(state[2].sim) :
            /\ KindAfter(p) = KindBefore(p) \/ (KindBefore(p) = "Food" /\ KindAfter(p) = "Path")
            /\ (KindBefore(p) = "Food" /\ KindAfter(p) = "Food")
                  => cell(state[1].sim, p).amount <= cell(state[2].sim, p).amount

\* a tick in which one Food cell was emptied into a Path, another lost a part of its
\* amount, and an ant stood on Home and another cell is a Blocker
C28_Witness ==
    /\ Ticked
    /\ \E p \in Positions(state[2].sim) : KindBefore(p) = "Food" /\ KindAfter(p) = "Path"
    /\ \E p \in Positions(state[2].sim) :
          /\ KindBefore(p) = "Food" /\ KindAfter(p) = "Food"
          /\ cell(state[1].sim, p).amount < cell(state[2].sim, p).amount
    /\ \E p \in Positions(state[2].sim) : KindAfter(p) = "Blocker"
    /\ \E p \in Positions(state[2].sim) : KindAfter(p) = "Home"

RECURSIVE FoodOnCells(_, _)
\* the sum of the amounts of the Food cells at the positions below n
FoodOnCells(sim, n) ==
    IF n = 0 THEN 0
    ELSE FoodOnCells(sim, n - 1)
         + (IF cell(sim, n - 1).kind = "Food" THEN cell(sim, n - 1).amount ELSE 0)

RECURSIVE FoodCarried(_, _)
\* the sum of the amounts carried by the first n ants
FoodCarried(ants, n) ==
    IF n = 0 THEN 0
    ELSE FoodCarried(ants, n - 1)
         + (IF ants[n].state.tag = "Hauling" THEN ants[n].state.amount ELSE 0)

\* the food on the board and on the ants
TotalFood(s) == FoodOnCells(s.sim, s.sim.width * s.sim.height) + FoodCarried(s.ants, Len(s.ants))

(* C29: a tick does not increase the total amount of food, on the cells and carried by
   the ants together, also when several foraging ants stand on one Food cell. *)
C29_TotalFoodNeverGrows ==
    Ticked => TotalFood(state[1]) <= TotalFood(state[2])

-----------------------------------------------------------------------------
(* AntSimFoldImpl (src/src/ant_sim_frame_impl2.rs): the grid stored as 8x8 tiles    *)

FOLD_WIDTH == 8
FOLD_HEIGHT == 8
FOLD_SIZE == FOLD_HEIGHT * FOLD_WIDTH

\* div_round_up
div_round_up(div, by) == (div \div by) + (IF div % by # 0 THEN 1 ELSE 0)

\* AntSimFoldImpl::fold_count
fold_count(width, height) == div_round_up(width, FOLD_WIDTH) * div_round_up(height, FOLD_HEIGHT)

\* AntSimFoldImpl::new: [tag, grid]; alloc is whether try_reserve_exact succeeds
AntSimFoldImpl_new(width, height, alloc) ==
    IF overflowing_mul(width, height).overflow THEN [tag |-> "DimensionTooLarge", grid |-> Err]
    ELSE IF ~alloc THEN [tag |-> "OutOfMemory", grid |-> Err]
    ELSE [tag |-> "Ok",
          grid |-> [width |-> width, height |-> height,
                    content |-> [f \in 1..fold_count(width, height) |->
                                    [o \in 1..FOLD_SIZE |-> from_cell(Path(0, 0))]]]]

\* AntSimFoldImpl::decode
fold_decode(sim, position) ==
    LET fold_num == position \div FOLD_SIZE
        fold_off == position % FOLD_SIZE
    IN  [x |-> (fold_num % div_round_up(sim.width, FOLD_WIDTH)) * FOLD_WIDTH + (fold_off % FOLD_WIDTH),
         y |-> (fold_num \div div_round_up(sim.width, FOLD_WIDTH)) * FOLD_HEIGHT
               + (fold_off \div FOLD_WIDTH)]

\* AntSimFoldImpl::encode: None outside the grid
fold_encode(sim, x, y) ==
    IF x < sim.width /\ y < sim.height
    THEN ((y \div FOLD_HEIGHT) * div_round_up(sim.width, FOLD_WIDTH) + (x \div FOLD_WIDTH)) * FOLD_SIZE
         + ((y % FOLD_HEIGHT) * FOLD_WIDTH + (x % FOLD_WIDTH))
    ELSE None

\* AntSimFoldImpl::cells: content.iter().flatten().enumerate(), as the sequence of the
\* (cell, position) pairs it yields
fold_cells(sim) ==
    [i \in 1..(Len(sim.content) * FOLD_SIZE) |->
        [cell |-> to_cell(sim.content[((i - 1) \div FOLD_SIZE) + 1][((i - 1) % FOLD_SIZE) + 1]),
         position |-> i - 1]]

\* the dimensions the folded grid is built with: whole tiles, part of a tile, and none
FoldDims == { <<8, 8>>, <<16, 8>>, <<3, 3>>, <<9, 8>>, <<0, 3>> }

NoFold == [width |-> 0, height |-> 0, tag |-> "Ok", count |-> 0, index |-> None,
           position |-> None, decoded |-> NoCoord, reencoded |-> None]

InitFold ==
    /\ nb = NoFold
    /\ state = <<>>
    /\ twin = <<>>
    /\ status = "ok"
    /\ lastOp = "new"
    /\ ticks = 0
    /\ edits = 0

\* AntSimFoldImpl::new(width, height), then one full scan with cells(): how many pairs it
\* yields, and one of them with its position decoded and encoded again
ScanFold ==
    /\ \E d \in FoldDims : \E alloc \in BOOLEAN :
       \E made \in {AntSimFoldImpl_new(d[1], d[2], alloc)} :
          IF made.tag # "Ok"
          THEN nb' = [NoFold EXCEPT !.width = d[1], !.height = d[2], !.tag = made.tag]
          ELSE \E scan \in {fold_cells(made.grid)} :
                  \/ /\ Len(scan) = 0
                     /\ nb' = [NoFold EXCEPT !.width = d[1], !.height = d[2]]
                  \/ \E i \in 1..Len(scan) : \E c \in {fold_decode(made.grid, scan[i].position)} :
                        nb' = [NoFold EXCEPT !.width = d[1], !.height = d[2],
                                             !.count = Len(scan), !.index = i,
                                             !.position = scan[i].position,
                                             !.decoded = c,
                                             !.reencoded = fold_encode(made.grid, c.x, c.y)]
    /\ lastOp' = "cells"
    /\ UNCHANGED <<state, twin, status, ticks, edits>>

NextFold == ScanFold

SpecFold == InitFold /\ [][NextFold]_vars

\* the last step was a scan of a folded grid that was built
Scanned == lastOp = "cells" /\ nb.tag = "Ok"

(* C31: a scan of a folded grid with cells() yields width * height pairs, and every
   position it yields decodes to a coordinate inside the grid that encodes back to the
   position. *)
C31_FoldScanIsTheBoard ==
    Scanned =>
        /\ nb.count = nb.width * nb.height
        /\ nb.index # None =>
              /\ nb.decoded.x < nb.width /\ nb.decoded.y < nb.height
              /\ nb.reencoded = nb.position

-----------------------------------------------------------------------------
(* SimUpdateService and SimStepComputationService (src/eframe-frontend/src): the task
   of the update service, its mailbox, the job queue to the computation worker and the
   channel the worker answers on.  A simulator is known by the NewSim it stems from
   (0: the one the service was created with); SetDelay and ImmediateNextFrame only move
   next_scheduled_update, and the timer running out is a step of its own.            *)

MaxInbox == 2
MaxSims == 2

\* the messages of SimUpdaterMessage, NewSim carrying the number of the simulator
UpdaterMessages(next_sim) ==
    { [kind |-> "SetDelay"], [kind |-> "Pause", paused |-> TRUE],
      [kind |-> "Pause", paused |-> FALSE], [kind |-> "ImmediateNextFrame"],
      [kind |-> "RequestCurrentState"] }
    \cup (IF next_sim <= MaxSims THEN { [kind |-> "NewSim", sim |-> next_sim] } ELSE {})

NoMessage == [kind |-> "None"]
NoOutput == [frame |-> None, current_state |-> None]

\* a timer that runs out whether the service is paused or not
use_delay_running(paused) == "till_next_scheduled_update"

\* use_delay: Duration::MAX while paused
use_delay(paused) == IF paused THEN "MAX" ELSE "till_next_scheduled_update"

\* a service that hands on every result
discards_never(ignore_updates) == FALSE

\* `if ignore_updates > 0` on a result of the computation service
discards(ignore_updates) == ignore_updates > 0

\* SimComputeMessage(sim.clone(), sim)
compute_message(sim) == [into |-> sim, from |-> sim]

\* job.0.update(job.1): SimComputationFinished(job.0, job.1) with job.1 the successor
computation_finished(job) == [old |-> job.into, new |-> job.into]

InitService ==
    /\ nb = [inbox |-> <<>>, next_sim |-> 1, pc |-> "recv", paused |-> FALSE,
             ignore_updates |-> 0, save_requested |-> FALSE, sim |-> 0,
             jobs |-> <<compute_message(0)>>, results |-> <<>>,
             message |-> NoMessage, output |-> NoOutput, submitted |-> FALSE]
    /\ state = <<>>
    /\ twin = <<>>
    /\ status = "ok"
    /\ lastOp = "new"
    /\ ticks = 0
    /\ edits = 0

\* what a step leaves of the record of the step before
Quiet(svc) == [svc EXCEPT !.message = NoMessage, !.output = NoOutput, !.submitted = FALSE]

\* a client sends a message to the service
SendMessage ==
    /\ Len(nb.inbox) < MaxInbox
    /\ \E m \in UpdaterMessages(nb.next_sim) :
          nb' = [Quiet(nb) EXCEPT !.inbox = Append(nb.inbox, m),
                                  !.next_sim = IF m.kind = "NewSim" THEN @ + 1 ELSE @]
    /\ lastOp' = "send"
    /\ UNCHANGED <<state, twin, status, ticks, edits>>

\* timeout(use_delay, rec.recv()) returns a message, and the match on it
ReceiveMessage ==
    /\ nb.pc = "recv"
    /\ nb.inbox # <<>>
    /\ \E m \in {Head(nb.inbox)} :
       \E rest \in {[Quiet(nb) EXCEPT !.inbox = Tail(nb.inbox), !.message = m]} :
          nb' = CASE m.kind = "Pause" -> [rest EXCEPT !.paused = m.paused]
                  [] m.kind = "NewSim" ->
                        [rest EXCEPT !.jobs = Append(@, compute_message(m.sim)),
                                     !.ignore_updates = @ + 1, !.sim = m.sim,
                                     !.submitted = TRUE]
                  [] m.kind = "RequestCurrentState" -> [rest EXCEPT !.save_requested = TRUE]
                  [] OTHER -> rest
    /\ lastOp' = "recv"
    /\ UNCHANGED <<state, twin, status, ticks, edits>>

\* timeout(use_delay, rec.recv()) runs out with nothing in the mailbox
TimerRunsOut ==
    /\ nb.pc = "recv"
    /\ nb.inbox = <<>>
    /\ use_delay(nb.paused) # "MAX"
    /\ nb' = [Quiet(nb) EXCEPT !.pc = "compute"]
    /\ lastOp' = "timeout"
    /\ UNCHANGED <<state, twin, status, ticks, edits>>

\* compute_channel.1.recv() in the inner loop gives a result that is to be ignored
DiscardResult ==
    /\ nb.pc = "compute"
    /\ nb.results # <<>>
    /\ discards(nb.ignore_updates)
    /\ nb' = [Quiet(nb) EXCEPT !.results = Tail(@), !.ignore_updates = @ - 1]
    /\ lastOp' = "discard"
    /\ UNCHANGED <<state, twin, status, ticks, edits>>

\* the inner loop breaks with a result: CurrentState when one was asked for, NewFrame,
\* and the next job for the computation service
EmitFrame ==
    /\ nb.pc = "compute"
    /\ nb.results # <<>>
    /\ ~discards(nb.ignore_updates)
    /\ \E result \in {Head(nb.results)} :
          nb' = [Quiet(nb) EXCEPT
                    !.results = Tail(@), !.pc = "recv", !.save_requested = FALSE,
                    !.output = [frame |-> result.old,
                                current_state |-> IF nb.save_requested THEN result.old ELSE None],
                    !.jobs = Append(@, [into |-> result.new, from |-> result.old]),
                    !.submitted = TRUE]
    /\ lastOp' = "emit"
    /\ UNCHANGED <<state, twin, status, ticks, edits>>

\* one pass of the loop of task_worker
ComputeJob ==
    /\ nb.jobs # <<>>
    /\ nb' = [Quiet(nb) EXCEPT !.jobs = Tail(@),
                               !.results = Append(@, computation_finished(Head(nb.jobs)))]
    /\ lastOp' = "compute"
    /\ UNCHANGED <<state, twin, status, ticks, edits>>

ServiceStep == ReceiveMessage \/ TimerRunsOut \/ DiscardResult \/ EmitFrame

NextService == SendMessage \/ ReceiveMessage \/ TimerRunsOut \/ DiscardResult \/ EmitFrame \/ ComputeJob

SpecService == InitService /\ [][NextService]_vars

\* the service and the worker run whenever they can; clients send what and when they like
SpecServiceLive == SpecService /\ WF_vars(ServiceStep) /\ WF_vars(ComputeJob)

(* C32: every NewFrame and CurrentState the service emits shows the simulator of the last
   NewSim it has processed (the one it was created with when there was none): results
   for an earlier simulator are never emitted. *)
C32_FramesFollowNewSim ==
    lastOp = "emit" =>
        /\ nb.output.frame = nb.sim
        /\ nb.output.current_state \in {None, nb.sim}

\* a frame and a CurrentState of a simulator that came with a NewSim, emitted after the
\* result for the simulator before it was discarded
C32_Witness ==
    /\ lastOp = "emit"
    /\ nb.sim = 2
    /\ nb.output.frame = 2
    /\ nb.output.current_state = 2
    /\ nb.ignore_updates = 0

(* C33: a step taken while the service is paused emits nothing, and submits a compute
   job only when the step is the receipt of a NewSim. *)
C33_PausedEmitsNothing ==
    [][nb.paused => /\ nb'.output = NoOutput
                    /\ nb'.submitted => nb'.message.kind = "NewSim"]_vars

\* the paused service has received a RequestCurrentState and a job's result is waiting
C33_Witness ==
    /\ nb.paused
    /\ lastOp = "recv"
    /\ nb.message.kind = "RequestCurrentState"
    /\ nb.results # <<>>
    /\ nb.pc = "recv"

(* C34: every RequestCurrentState the service receives is followed by a CurrentState. *)
C34_RequestIsAnswered ==
    (lastOp = "recv" /\ nb.message.kind = "RequestCurrentState")
        ~> (lastOp = "emit" /\ nb.output.current_state # None)

-----------------------------------------------------------------------------
(* handle_events (src/eframe_frontend/src/app_event_handling.rs) with the update service
   it talks to: the game state and the pause flag of the application beside the mailbox
   and the task of the service.                                                        *)

\* eframe_template::AppState::new: edit mode, game_speed.paused = false; the service is
\* created paused or running
InitApp ==
    /\ \E initial_pause \in BOOLEAN :
          nb = [inbox |-> <<>>, next_sim |-> 1, pc |-> "recv", paused |-> initial_pause,
                ignore_updates |-> 0, save_requested |-> FALSE, sim |-> 0,
                jobs |-> <<compute_message(0)>>, results |-> <<>>,
                message |-> NoMessage, output |-> NoOutput, submitted |-> FALSE,
                game_state |-> "Edit", game_paused |-> FALSE]
    /\ state = <<>>
    /\ twin = <<>>
    /\ status = "ok"
    /\ lastOp = "new"
    /\ ticks = 0
    /\ edits = 0

\* AppEvents::ReplaceSim: a loaded simulation puts the application into edit mode and
\* pauses the service; a failed load only reports the error
ReplaceSim ==
    /\ Len(nb.inbox) < MaxInbox
    /\ \E loaded \in BOOLEAN :
          nb' = IF loaded
                THEN [Quiet(nb) EXCEPT !.game_state = "Edit",
                                       !.inbox = Append(@, [kind |-> "Pause", paused |-> TRUE])]
                ELSE Quiet(nb)
    /\ lastOp' = "ReplaceSim"
    /\ UNCHANGED <<state, twin, status, ticks, edits>>

\* AppEvents::RequestPause: only while launched
RequestPause ==
    /\ Len(nb.inbox) < MaxInbox
    /\ nb' = IF nb.game_state = "Launched"
             THEN [Quiet(nb) EXCEPT !.game_paused = ~nb.game_paused,
                                    !.inbox = Append(@, [kind |-> "Pause", paused |-> ~nb.game_paused])]
             ELSE Quiet(nb)
    /\ lastOp' = "RequestPause"
    /\ UNCHANGED <<state, twin, status, ticks, edits>>

\* AppEvents::RequestSaveGame: while launched the service is asked for its state
RequestSaveGame ==
    /\ Len(nb.inbox) < MaxInbox
    /\ nb' = IF nb.game_state = "Launched"
             THEN [Quiet(nb) EXCEPT !.inbox = Append(@, [kind |-> "RequestCurrentState"])]
             ELSE Quiet(nb)
    /\ lastOp' = "RequestSaveGame"
    /\ UNCHANGED <<state, twin, status, ticks, edits>>

\* AppEvents::DelayRequest
DelayRequest ==
    /\ Len(nb.inbox) < MaxInbox
    /\ nb' = [Quiet(nb) EXCEPT !.inbox = Append(@, [kind |-> "SetDelay"])]
    /\ lastOp' = "DelayRequest"
    /\ UNCHANGED <<state, twin, status, ticks, edits>>

\* AppEvents::RequestLaunch: only in edit mode; NewSim and then Pause(false)
RequestLaunch ==
    /\ Len(nb.inbox) + 2 <= MaxInbox
    /\ nb.next_sim <= MaxSims
    /\ nb' = IF nb.game_state = "Edit"
             THEN [Quiet(nb) EXCEPT !.game_state = "Launched",
                                    !.inbox = nb.inbox \o <<[kind |-> "NewSim", sim |-> nb.next_sim],
                                                          [kind |-> "Pause", paused |-> FALSE]>>,
                                    !.next_sim = @ + 1]
             ELSE Quiet(nb)
    /\ lastOp' = "RequestLaunch"
    /\ UNCHANGED <<state, twin, status, ticks, edits>>

NextApp ==
    \/ ReplaceSim \/ RequestPause \/ RequestSaveGame \/ DelayRequest \/ RequestLaunch
    \/ ReceiveMessage \/ TimerRunsOut \/ DiscardResult \/ EmitFrame \/ ComputeJob

SpecApp == InitApp /\ [][NextApp]_vars

(* C35: when the game is launched and the service has processed every message sent to
   it, the pause flag of the application equals the pause state of the service. *)
C35_PauseFlagMatchesService ==
    (nb.game_state = "Launched" /\ nb.inbox = <<>>) => nb.game_paused = nb.paused

-----------------------------------------------------------------------------
(* RgbaWriteService and recording_task (src/frontend_recording/src): the producer loop
   of recording_task, the worker thread of the service, the queue of free buffers and
   the queue of jobs.  A buffer is known by the number of the frame copied into it.   *)

MaxPool == 2
MaxFrames == 4

\* a receive that takes the newest message of a channel
recv_newest(q) == [msg |-> q[Len(q)], rest |-> SubSeq(q, 1, Len(q) - 1)]

\* Receiver::recv on a channel that holds a message: the oldest one
recv(q) == [msg |-> Head(q), rest |-> Tail(q)]

\* RgbaWriteService::new(c, job_q, ..): both channels have the capacity job_q, the free
\* queue starts with job_q buffers; recording_task then draws and queues frames
InitRecord ==
    /\ \E n \in 1..MaxPool :
          nb = [capacity |-> n, buf_q |-> [i \in 1..n |-> 0], job_q |-> <<>>,
                producer |-> "loop", producer_buf |-> None, frame |-> 0,
                worker |-> "recv", worker_buf |-> None, alive |-> TRUE,
                written |-> <<>>, result |-> "running"]
    /\ state = <<>>
    /\ twin = <<>>
    /\ status = "ok"
    /\ lastOp = "new"
    /\ ticks = 0
    /\ edits = 0

\* `while time < time_limit`: the next frame is drawn and queue_frame looks at
\* join_handle.is_finished(); or the time limit is reached and recording_task returns Ok
NextFrame ==
    /\ nb.producer = "loop"
    /\ \/ /\ nb.frame < MaxFrames
          /\ nb' = IF nb.alive
                   THEN [nb EXCEPT !.frame = @ + 1, !.producer = "recv_buf"]
                   ELSE [nb EXCEPT !.frame = @ + 1, !.producer = "returned", !.result = "Err"]
          /\ lastOp' = "queue_frame"
       \/ /\ nb' = [nb EXCEPT !.producer = "returned", !.result = "Ok"]
          /\ lastOp' = "return"
    /\ UNCHANGED <<state, twin, status, ticks, edits>>

\* self.buf_q.recv() and copy_from_ref: blocks while the queue is empty and the worker
\* lives, fails when it is empty and the worker has gone
TakeBuffer ==
    /\ nb.producer = "recv_buf"
    /\ \/ /\ nb.buf_q # <<>>
          /\ \E r \in {recv(nb.buf_q)} :
                nb' = [nb EXCEPT !.buf_q = r.rest, !.producer_buf = nb.frame,
                                 !.producer = "send_job"]
       \/ /\ nb.buf_q = <<>>
          /\ ~nb.alive
          /\ nb' = [nb EXCEPT !.producer = "returned", !.result = "Err"]
    /\ lastOp' = "take_buffer"
    /\ UNCHANGED <<state, twin, status, ticks, edits>>

\* self.job_q.send(buffer): blocks while the queue is full, fails when the worker has gone
SendJob ==
    /\ nb.producer = "send_job"
    /\ \/ /\ nb.alive
          /\ Len(nb.job_q) < nb.capacity
          /\ nb' = [nb EXCEPT !.job_q = Append(@, nb.producer_buf), !.producer_buf = None,
                              !.producer = "loop"]
       \/ /\ ~nb.alive
          /\ nb' = [nb EXCEPT !.producer_buf = None, !.producer = "returned", !.result = "Err"]
    /\ lastOp' = "send_job"
    /\ UNCHANGED <<state, twin, status, ticks, edits>>

\* consumer_work: job_q()
TakeJob ==
    /\ nb.alive
    /\ nb.worker = "recv"
    /\ nb.job_q # <<>>
    /\ \E r \in {recv(nb.job_q)} :
          nb' = [nb EXCEPT !.job_q = r.rest, !.worker_buf = r.msg, !.worker = "write"]
    /\ lastOp' = "take_job"
    /\ UNCHANGED <<state, twin, status, ticks, edits>>

\* consumer_work: c.write_buf(job.buf_ref(), delay), which the consumer may fail; the
\* worker then ends and drops its ends of both channels
WriteBuf ==
    /\ nb.alive
    /\ nb.worker = "write"
    /\ \E written \in BOOLEAN :
          nb' = IF written
                THEN [nb EXCEPT !.written = Append(@, nb.worker_buf), !.worker = "return"]
                ELSE [nb EXCEPT !.alive = FALSE, !.worker_buf = None, !.worker = "ended",
                                !.job_q = <<>>]
    /\ lastOp' = "write_buf"
    /\ UNCHANGED <<state, twin, status, ticks, edits>>

\* consumer_work: buf_q(job)
ReturnBuffer ==
    /\ nb.alive
    /\ nb.worker = "return"
    /\ Len(nb.buf_q) < nb.capacity
    /\ nb' = [nb EXCEPT !.buf_q = Append(@, nb.worker_buf), !.worker_buf = None,
                        !.worker = "recv"]
    /\ lastOp' = "return_buffer"
    /\ UNCHANGED <<state, twin, status, ticks, edits>>

NextRecord == NextFrame \/ TakeBuffer \/ SendJob \/ TakeJob \/ WriteBuf \/ ReturnBuffer

SpecRecord == InitRecord /\ [][NextRecord]_vars

\* the buffers held by the producer and by the worker
Held == (IF nb.producer_buf = None THEN 0 ELSE 1) + (IF nb.worker_buf = None THEN 0 ELSE 1)

\* the frames for which queue_frame has sent a job, in the order of the calls
Queued == [i \in 1..(IF nb.producer \in {"recv_buf", "send_job"} \/ nb.result = "Err"
                     THEN nb.frame - 1 ELSE nb.frame) |-> i]

\* the frames on their way: written, being written, waiting in the job queue
OnTheWay ==
    nb.written
    \o (IF nb.worker = "write" THEN <<nb.worker_buf>> ELSE <<>>)
    \o nb.job_q

(* C36: while the worker lives, the frames written, being written and waiting in the job
   queue are the queued frames in the order of the queue_frame calls, each once; the
   buffers in the two queues and in the hands of producer and worker are N in all; the
   job queue has room whenever the producer sends; and a producer waiting for a buffer
   finds the worker with a job to take or a buffer to give back. *)
C36_OrderedPoolNoDeadlock ==
    nb.alive =>
        /\ OnTheWay = Queued
        /\ Len(nb.buf_q) + Len(nb.job_q) + Held = nb.capacity
        /\ nb.producer = "send_job" => Len(nb.job_q) < nb.capacity
        /\ nb.worker = "return" => Len(nb.buf_q) < nb.capacity
        /\ (nb.producer = "recv_buf" /\ nb.buf_q = <<>>)
              => (nb.job_q # <<>> \/ nb.worker \in {"write", "return"})

\* the producer waits for a buffer while both buffers of the pool are with the worker,
\* one written and one in the job queue, after two frames went through in order
C36_Witness ==
    /\ nb.alive
    /\ nb.capacity = 2
    /\ nb.producer = "recv_buf"
    /\ nb.buf_q = <<>>
    /\ Len(nb.job_q) = 1
    /\ nb.worker = "return"
    /\ Len(nb.written) >= 2

(* C37: when recording_task has returned Ok, every frame given to queue_frame has been
   written to the consumer. *)
C37_ReturnedOkAllWritten ==
    (nb.producer = "returned" /\ nb.result = "Ok") => nb.written = Queued

-----------------------------------------------------------------------------
(* RequestSetBoardWidth / RequestSetBoardHeight, translate_sim and clamp_ant_pos
   (src/eframe_frontend/src/app_event_handling.rs): the board of the edit mode is
   replaced by a new board of another size.                                         *)

MaxSide == 4
MaxResizes == 2

RECURSIVE translate_from(_, _, _)
\* translate_sim: the loop over from.cells(), from position p on
translate_from(from, into, p) ==
    IF p >= from.width * from.height THEN into
    ELSE LET c == decode(from, p)
             new_pos == encode(into, c.x, c.y)
         IN  translate_from(from,
                            IF new_pos = None THEN into ELSE set_cell(into, new_pos, cell(from, p)),
                            p + 1)

\* translate_sim
translate_sim(from, into) == translate_from(from, into, 0)

\* a clamp that also pulls in a last position that lies outside on its own
clamp_coord_both(position, last_position, limit) ==
    [position |-> min(position, limit - 1), last_position |-> min(last_position, limit - 1)]

\* clamp_coord!: one coordinate of the ant's position and last position against the new
\* width or height
clamp_coord(position, last_position, limit) ==
    IF position >= limit
    THEN [position |-> limit - 1,
          last_position |-> IF last_position >= position THEN limit - 1
                            ELSE saturating_sub(limit - 1, position - last_position)]
    ELSE [position |-> position, last_position |-> last_position]

\* clamp_ant_pos: [ok, ant]; ok is FALSE when one of the two expect() calls meets None
clamp_ant_pos(ant, from, sim) ==
    LET at == decode(from, ant.position)
        last == decode(from, ant.last_position)
        x == clamp_coord(at.x, last.x, sim.width)
        y == clamp_coord(at.y, last.y, sim.height)
        encoded_pos == encode(sim, x.position, y.position)
        encoded_last_pos == encode(sim, x.last_position, y.last_position)
    IN  IF encoded_pos = None \/ encoded_last_pos = None THEN [ok |-> FALSE, ant |-> ant]
        ELSE [ok |-> TRUE,
              ant |-> [ant EXCEPT !.position = encoded_pos, !.last_position = encoded_last_pos]]

\* the handler of RequestSetBoardWidth and RequestSetBoardHeight once the text is a
\* number: [tag, ok, sim]; tag is the result of AntSimFrame::new, ok is FALSE when the
\* handler panics, sim is the simulator of the edit mode afterwards
set_board_size(sim, width, height, alloc, overflow_checks) ==
    LET clamped(board) == [i \in 1..Len(sim.ants) |-> clamp_ant_pos(sim.ants[i], sim.sim, board)]
        replaced(board, ants) ==
            IF \E i \in 1..Len(ants) : ~ants[i].ok THEN [tag |-> "Ok", ok |-> FALSE, sim |-> sim]
            ELSE [tag |-> "Ok", ok |-> TRUE,
                  sim |-> [sim EXCEPT !.sim = board,
                                      !.ants = [i \in 1..Len(ants) |-> ants[i].ant]]]
        built(made) ==
            IF made.panicked THEN [tag |-> made.tag, ok |-> FALSE, sim |-> sim]
            ELSE IF made.tag # "Ok" THEN [tag |-> made.tag, ok |-> TRUE, sim |-> sim]
            ELSE replaced(translate_sim(sim.sim, made.grid),
                          clamped(translate_sim(sim.sim, made.grid)))
    IN  built(AntSimVecImpl_new(width, height, alloc, overflow_checks))

\* the edit mode starts with the board of a scenario and one ant that stands next to
\* where it was before, or on it
InitResize ==
    /\ \E scn \in {s \in Scenarios : s.name = "forage"} :
       \E p \in 0..(scn.width * scn.height - 1) :
       \E l \in {p, p + 1, p - 1} \cap 0..(scn.width * scn.height - 1) :
          nb = [sim |-> build(scn, <<[new_default(p, 0) EXCEPT !.last_position = l]>>),
                before |-> build(scn, <<[new_default(p, 0) EXCEPT !.last_position = l]>>),
                tag |-> "Ok"]
    /\ state = <<>>
    /\ twin = <<>>
    /\ status = "ok"
    /\ lastOp = "new"
    /\ ticks = 0
    /\ edits = 0

\* AppEvents::RequestSetBoardWidth with a number in the text field
RequestSetBoardWidth ==
    /\ status = "ok"
    /\ edits < MaxResizes
    /\ \E width \in 0..MaxSide : \E alloc \in BOOLEAN :
       \E res \in {set_board_size(nb.sim, width, nb.sim.sim.height, alloc, FALSE)} :
          /\ nb' = [sim |-> res.sim, before |-> nb.sim, tag |-> res.tag]
          /\ status' = IF res.ok THEN "ok" ELSE "panic"
    /\ lastOp' = "set_board_width"
    /\ edits' = edits + 1
    /\ UNCHANGED <<state, twin, ticks>>

\* AppEvents::RequestSetBoardHeight with a number in the text field
RequestSetBoardHeight ==
    /\ status = "ok"
    /\ edits < MaxResizes
    /\ \E height \in 0..MaxSide : \E alloc \in BOOLEAN :
       \E res \in {set_board_size(nb.sim, nb.sim.sim.width, height, alloc, FALSE)} :
          /\ nb' = [sim |-> res.sim, before |-> nb.sim, tag |-> res.tag]
          /\ status' = IF res.ok THEN "ok" ELSE "panic"
    /\ lastOp' = "set_board_height"
    /\ edits' = edits + 1
    /\ UNCHANGED <<state, twin, ticks>>

NextResize == RequestSetBoardWidth \/ RequestSetBoardHeight

SpecResize == InitResize /\ [][NextResize]_vars

\* the last step was a change of the width or height for which the new grid was built
Resized == lastOp \in {"set_board_width", "set_board_height"} /\ nb.tag = "Ok"

\* the coordinates that lie inside the board before and after
InBoth == { c \in (0..MaxSide) \X (0..MaxSide) :
              /\ encode(nb.before.sim, c[1], c[2]) # None
              /\ encode(nb.sim.sim, c[1], c[2]) # None }

(* C38: a change of the board's width or height for which the grid is built does not
   panic; afterwards the position and last position of every ant are positions of the
   new grid, and every coordinate inside the old and the new grid has the cell it had. *)
C38_ResizeKeepsAntsAndCells ==
    Resized =>
        /\ status = "ok"
        /\ \A i \in 1..Len(nb.sim.ants) :
              /\ nb.sim.ants[i].position \in Positions(nb.sim.sim)
              /\ nb.sim.ants[i].last_position \in Positions(nb.sim.sim)
        /\ \A c \in InBoth :
              cell(nb.sim.sim, encode(nb.sim.sim, c[1], c[2]))
                 = cell(nb.before.sim, encode(nb.before.sim, c[1], c[2]))

-----------------------------------------------------------------------------
(* SaveFileClass::newest_save (src/ant_sim_save/src/save_subsystem.rs): the entries of
   the save directory in the order read_dir lists them, each a regular file, a directory
   or an entry whose metadata cannot be read, with its modification time.             *)

MaxFiles == 3
MaxTime == 2

DirEntries == [kind : {"file", "dir", "unreadable"}, modified : 0..MaxTime]

\* t.elapsed().ok().unwrap_or(Duration::ZERO) at the time now
elapsed_or_zero(t, now) == IF t <= now THEN now - t ELSE 0

RECURSIVE max_by_key(_, _, _, _)
\* Iterator::max_by_key over the entries from index i on: the index of the last entry
\* with the greatest key, best so far
max_by_key(entries, keys, i, best) ==
    IF i > Len(entries) THEN best
    ELSE max_by_key(entries, keys, i + 1,
                    IF entries[i].kind = "file" /\ (best = None \/ keys[i] >= keys[best])
                    THEN i ELSE best)

\* newest_save: the index of the entry whose path is returned, or "NoSave"
newest_save(entries, now) ==
    LET keys == [i \in 1..Len(entries) |-> elapsed_or_zero(entries[i].modified, now)]
        found == max_by_key(entries, keys, 1, None)
    IN  IF found = None THEN [tag |-> "NoSave", entry |-> None]
        ELSE [tag |-> "Ok", entry |-> found]

InitNewest ==
    /\ nb = [entries |-> <<>>, result |-> [tag |-> "None", entry |-> None]]
    /\ state = <<>>
    /\ twin = <<>>
    /\ status = "ok"
    /\ lastOp = "new"
    /\ ticks = 0
    /\ edits = 0

\* something is put into the save directory
CreateEntry ==
    /\ Len(nb.entries) < MaxFiles
    /\ \E e \in DirEntries :
          nb' = [entries |-> Append(nb.entries, e), result |-> [tag |-> "None", entry |-> None]]
    /\ lastOp' = "create"
    /\ UNCHANGED <<state, twin, status, ticks, edits>>

\* save_class.newest_save() once every modification time lies in the past
CallNewestSave ==
    /\ nb' = [nb EXCEPT !.result = newest_save(nb.entries, MaxTime)]
    /\ lastOp' = "newest_save"
    /\ UNCHANGED <<state, twin, status, ticks, edits>>

NextNewest == CreateEntry \/ CallNewestSave

SpecNewest == InitNewest /\ [][NextNewest]_vars

\* the regular files of the directory
RegularFiles == { i \in 1..Len(nb.entries) : nb.entries[i].kind = "file" }

(* C39: newest_save gives NoSave when the directory holds no regular file, and otherwise
   a regular file whose modification time no other regular file exceeds. *)
C39_NewestSaveIsNewest ==
    lastOp = "newest_save" =>
        IF RegularFiles = {} THEN nb.result.tag = "NoSave"
        ELSE /\ nb.result.tag = "Ok"
             /\ nb.result.entry \in RegularFiles
             /\ \A i \in RegularFiles :
                   nb.entries[i].modified <= nb.entries[nb.result.entry].modified

=============================================================================
